---- MODULE Spec2Model ----
(***************************************************************************)
(* Identity & Team-Access subsystem of Team-Pulse-Check.                   *)
(*                                                                         *)
(* Spec     : the request handlers of routes/auth_route.py together with   *)
(*            the get_current_user dependency that guards the team routes. *)
(* SvcSpec  : the session methods of AuthService (create_user_session,     *)
(*            validate_session, terminate_session) driven directly; no     *)
(*            request handler calls create_user_session.                   *)
(* TeamSpec : the functions of services/team_service.py that create and   *)
(*            fill teams, called with the caller's user id; create_team    *)
(*            and join run step by step so that requests interleave.       *)
(* ManageSpec : the functions that manage an existing team (update,        *)
(*            regenerate, remove, invite) beside join.                     *)
(* InviteSpec : create_team_invitation on an existing team, atomically   *)
(*            and in two steps (lookup, then insert), with a clock that    *)
(*            passes the expiry of an invitation.                          *)
(* OpsSpec  : every writing function of team_service.py from an empty      *)
(*            database.                                                    *)
(* ViewSpec : the managing routes together with the reading routes         *)
(*            get_my_teams and get_team.                                   *)
(*                                                                         *)
(* Time is counted in minutes.  A JWT is a record of its claims plus the   *)
(* state of its signature; a bcrypt hash is a record naming the password   *)
(* it was computed from.                                                   *)
(***************************************************************************)
EXTENDS Integers, Sequences, FiniteSets, TLC

VARIABLES users, sessions, issued, now, resp

\* The teams and team_members tables as committed, the create_team
\* transactions in flight, and the answer of the last team operation.
VARIABLES teams, members, pending, tresp

\* The join requests that have passed their checks and not yet inserted, and
\* the team_invitations table.
VARIABLES joining, invitations

\* The invite requests that have passed their checks and not yet inserted.
VARIABLES inviting

authVars == <<users, sessions, issued, now, resp>>
teamVars == <<teams, members, pending, tresp, joining, invitations, inviting>>
vars == <<users, sessions, issued, now, resp, teams, members, pending, tresp, joining,
          invitations, inviting>>

----------------------------------------------------------------------------
(* Bounds of the model *)

MaxTokens == 3
MaxSessions == 2
TickStep == 61
MaxTime == 61
MaxTeams == 2
MaxPending == 1
MaxJoining == 1
MaxInvitations == 2
MaxInviting == 1
InviteTickStep == 10081
InviteMaxTime == 10081
SvcTickStep == 5040
SvcMaxTime == 10080

Emails == {"a@x", "b@x"}
Usernames == {"alice", "bob"}
Passwords == {"pw1", "pw2"}

(* Program constants *)

EMAIL_VERIFICATION_TOKEN_EXPIRE_MINUTES == 1440
ACCESS_TOKEN_EXPIRE_MINUTES == 60
ACCESS_TOKEN_EXPIRE_MINUTES_EXTENDED == 24 * 7 * 60
REFRESH_TOKEN_EXPIRE_DAYS == 7
REFRESH_TOKEN_EXPIRE_DAYS_EXTENDED == 30
PASSWORD_RESET_TOKEN_EXPIRE_MINUTES == 30
expiration_days == 7
MinutesPerDay == 24 * 60
session_expire_days == REFRESH_TOKEN_EXPIRE_DAYS

----------------------------------------------------------------------------
(* Values *)

NoEmail == "none"
NoUser == 0
NoTime == -1

\* A token as a client holds it: a signed JWT (kind "jwt") or an opaque
\* session token (kind "opaque", identified by n).
Jwt(sub, exp, type, sig) ==
    [kind |-> "jwt", sub |-> sub, exp |-> exp, type |-> type, sig |-> sig, n |-> 0]

OpaqueToken(n) ==
    [kind |-> "opaque", sub |-> NoEmail, exp |-> 0, type |-> "none", sig |-> "none", n |-> n]

NoToken == [kind |-> "none", sub |-> NoEmail, exp |-> 0, type |-> "none", sig |-> "none", n |-> 0]

\* A string that is not a JWT at all.
Garbage == Jwt(NoEmail, 0, "none", "malformed")

\* Well-formed tokens signed with some other key.
Forged ==
    {Jwt("a@x", MaxTime + EMAIL_VERIFICATION_TOKEN_EXPIRE_MINUTES, ty, "bad") :
        ty \in {"email_verification", "password_reset"}}

\* Python values that reach a truth test or a query parameter.
PyStr(s) == [tag |-> "str", str |-> s, ok |-> FALSE]
PyTuple2(ok, s) == [tag |-> "tuple", str |-> s, ok |-> ok]
PyNone == [tag |-> "none", str |-> NoEmail, ok |-> FALSE]

\* Python truthiness: None and "" are false, a 2-tuple is always true.
Truthy(v) ==
    CASE v.tag = "none" -> FALSE
      [] v.tag = "str" -> v.str # NoEmail
      [] v.tag = "tuple" -> TRUE

----------------------------------------------------------------------------
(* Password hashing (passlib CryptContext, bcrypt) *)

hash_password(password) == [scheme |-> "bcrypt", of |-> password]

verify_password(plain_password, hashed_password) ==
    hashed_password.scheme = "bcrypt" /\ hashed_password.of = plain_password

----------------------------------------------------------------------------
(* Token codec *)

create_verification_token(email) ==
    Jwt(email, now + EMAIL_VERIFICATION_TOKEN_EXPIRE_MINUTES, "email_verification", "good")

create_access_token(sub, expires_minutes) ==
    Jwt(sub,
        now + (IF expires_minutes # 0 THEN expires_minutes ELSE ACCESS_TOKEN_EXPIRE_MINUTES),
        "access_token", "good")

create_refresh_token(sub, expires_days) ==
    Jwt(sub,
        now + (IF expires_days # 0 THEN expires_days ELSE REFRESH_TOKEN_EXPIRE_DAYS) * MinutesPerDay,
        "refresh_token", "good")

create_password_reset_token(email) ==
    Jwt(email, now + PASSWORD_RESET_TOKEN_EXPIRE_MINUTES, "password_reset", "good")

\* jwt.decode: TRUE iff the string parses, the signature is ours and the
\* exp claim has not passed (jose rejects exp < now).
jwt_decode_ok(token) ==
    /\ token.kind = "jwt"
    /\ token.sig = "good"
    /\ ~(token.exp < now)

\* verify_token without the comparison of the type claim.
verify_token_any_type(token, token_type) ==
    IF ~jwt_decode_ok(token) THEN PyTuple2(FALSE, NoEmail)
    ELSE IF token.sub = NoEmail THEN PyTuple2(FALSE, NoEmail)
    ELSE PyTuple2(TRUE, token.sub)

\* AuthService.verify_token: the pair (is_valid, email).
verify_token(token, token_type) ==
    IF ~jwt_decode_ok(token) THEN PyTuple2(FALSE, NoEmail)
    ELSE IF token.sub = NoEmail THEN PyTuple2(FALSE, NoEmail)
    ELSE IF token.type # token_type THEN PyTuple2(FALSE, NoEmail)
    ELSE PyTuple2(TRUE, token.sub)

DefaultTokenType == "email_verification"

----------------------------------------------------------------------------
(* Persistence *)

UserIds == 1..Len(users)

\* db.query(User).filter(User.email == email).first() for a string.
user_by_email(email) ==
    IF \E i \in UserIds : users[i].email = email
    THEN CHOOSE i \in UserIds : users[i].email = email
    ELSE NoUser

\* A username lookup that finds nobody.
user_by_username_none(username) == NoUser

user_by_username(username) ==
    IF \E i \in UserIds : users[i].username = username
    THEN CHOOSE i \in UserIds : users[i].username = username
    ELSE NoUser

\* The same query with an arbitrary Python value as the parameter.  A string
\* is compared with the column.  A tuple is not a scalar: the driver either
\* raises or the comparison matches no row.
QueryOutcomes(v) ==
    IF v.tag = "str"
    THEN {[raised |-> FALSE, row |-> user_by_email(v.str)]}
    ELSE {[raised |-> TRUE, row |-> NoUser], [raised |-> FALSE, row |-> NoUser]}

SessionIds == 1..Len(sessions)

----------------------------------------------------------------------------
(* The response of the last request or call *)

\* op: the handler; status/detail: the HTTP status and message (0 for a direct
\* service call); email, password, token: the inputs; user: the user returned;
\* out: the tokens handed to the caller; mailed: calls made to the mail port;
\* sent: what the mail port answered.
Resp(op, status, detail, email, password, token, user, out, mailed, sent) ==
    [op |-> op, status |-> status, detail |-> detail, email |-> email,
     password |-> password, token |-> token, user |-> user, out |-> out,
     mailed |-> mailed, sent |-> sent]

NoTeam == 0
NoCode == "none"

\* What the last step of a team operation answered: the HTTP status and
\* detail, the caller, the team and invite code concerned, and the team ids a
\* listing returned.  A step inside a transaction that has not answered yet
\* has status 0.
TResp(op, status, detail, user, team, code, out) ==
    [op |-> op, status |-> status, detail |-> detail, user |-> user, team |-> team,
     code |-> code, out |-> out]

NoTeamCall == TResp("init", 0, "", NoUser, NoTeam, NoCode, {})

Init ==
    /\ users = <<>>
    /\ sessions = <<>>
    /\ issued = {}
    /\ now = 0
    /\ resp = Resp("init", 0, "", NoEmail, "", NoToken, NoUser, {}, 0, FALSE)
    /\ teams = {}
    /\ members = {}
    /\ pending = {}
    /\ joining = {}
    /\ invitations = {}
    /\ inviting = {}
    /\ tresp = NoTeamCall

\* Tokens a client can present: those the server signed, forged ones, garbage.
Presentable == issued \cup Forged \cup {Garbage}

----------------------------------------------------------------------------
(* routes/auth_route.py *)

\* The row with is_active left to the column default (True).
new_user_default_active(email, username, password) ==
    [email |-> email, username |-> username, hashed_password |-> hash_password(password),
     is_active |-> TRUE, last_login |-> NoTime]

\* models.User(..., is_active=False): the row register_user inserts.
new_user(email, username, password) ==
    [email |-> email, username |-> username, hashed_password |-> hash_password(password),
     is_active |-> FALSE, last_login |-> NoTime]

\* verify_email flipping the flag instead of setting it.
activate_toggle(user) == [users EXCEPT ![user].is_active = ~@]

\* user.is_active = True of verify_email.
activate(user) == [users EXCEPT ![user].is_active = TRUE]

\* login without the verification test.
email_verified_skipped(user) == TRUE

\* The "email is verified" test of login.
email_verified(user) == users[user].is_active

\* The commit placed after the send and undone when the send fails.
persist_registration_if_sent(row, email_sent) ==
    IF email_sent THEN Append(users, row) ELSE users

\* db.add(new_user); db.commit(): the row is committed before the mail is
\* attempted, whatever the mail port answers afterwards.
persist_registration(row, email_sent) == Append(users, row)

register_user(email, username, password) ==
    IF user_by_email(email) # NoUser
    THEN /\ resp' = Resp("register", 400, "Email already registered", email, "",
                         NoToken, NoUser, {}, 0, FALSE)
         /\ UNCHANGED <<users, sessions, issued, now>>
    ELSE IF user_by_username(username) # NoUser
    THEN /\ resp' = Resp("register", 400, "Username already taken", email, "",
                         NoToken, NoUser, {}, 0, FALSE)
         /\ UNCHANGED <<users, sessions, issued, now>>
    ELSE LET verification_token == create_verification_token(email) IN
         \E email_sent \in BOOLEAN :
            /\ Cardinality(issued \cup {verification_token}) <= MaxTokens
            /\ users' = persist_registration(new_user(email, username, password), email_sent)
            /\ issued' = issued \cup {verification_token}
            /\ resp' = Resp("register", 201, "User registered successfully", email,
                            "", NoToken, Len(users) + 1, {}, 1, email_sent)
            /\ UNCHANGED <<sessions, now>>

send_verification_email(email) ==
    IF user_by_email(email) = NoUser
    THEN /\ resp' = Resp("send_verification_email", 404, "User not found", email, "",
                         NoToken, NoUser, {}, 0, FALSE)
         /\ UNCHANGED <<users, sessions, issued, now>>
    ELSE LET verification_token == create_verification_token(email) IN
         \E email_sent \in BOOLEAN :
            /\ Cardinality(issued \cup {verification_token}) <= MaxTokens
            /\ issued' = issued \cup {verification_token}
            /\ resp' = Resp("send_verification_email", 200,
                            IF email_sent THEN "Verification email sent successfully"
                            ELSE "Failed to send verification email",
                            email, "", NoToken, NoUser, {}, 1, email_sent)
            /\ UNCHANGED <<users, sessions, now>>

\* Every HTTPException raised inside the try block is caught by the handler's
\* own "except Exception" and raised again as a 400.
verify_email(token) ==
    LET token_result == verify_token(token, DefaultTokenType)
        success == token_result.ok
        email == token_result.str
        user == user_by_email(email)
    IN  IF ~success \/ email = NoEmail \/ user = NoUser
        THEN /\ resp' = Resp("verify_email", 400, "Verification failed", NoEmail, "",
                             token, NoUser, {}, 0, FALSE)
             /\ UNCHANGED <<users, sessions, issued, now>>
        ELSE /\ users' = activate(user)
             /\ resp' = Resp("verify_email", 200, "Email verified successfully", email, "",
                             token, NoUser, {}, 0, FALSE)
             /\ UNCHANGED <<sessions, issued, now>>

login(email, password, remember_me) ==
    LET user == user_by_email(email) IN
    IF user = NoUser
    THEN /\ resp' = Resp("login", 401, "Incorrect email or password", email, password,
                         NoToken, NoUser, {}, 0, FALSE)
         /\ UNCHANGED <<users, sessions, issued, now>>
    ELSE IF ~verify_password(password, users[user].hashed_password)
    THEN /\ resp' = Resp("login", 401, "Incorrect email or password", email, password,
                         NoToken, NoUser, {}, 0, FALSE)
         /\ UNCHANGED <<users, sessions, issued, now>>
    ELSE IF ~email_verified(user)
    THEN /\ resp' = Resp("login", 400, "Email not verified", email, password,
                         NoToken, NoUser, {}, 0, FALSE)
         /\ UNCHANGED <<users, sessions, issued, now>>
    ELSE LET access_token_expires ==
                 IF remember_me THEN ACCESS_TOKEN_EXPIRE_MINUTES_EXTENDED
                 ELSE ACCESS_TOKEN_EXPIRE_MINUTES
             refresh_token_expires ==
                 IF remember_me THEN REFRESH_TOKEN_EXPIRE_DAYS_EXTENDED
                 ELSE REFRESH_TOKEN_EXPIRE_DAYS
             access_token == create_access_token(users[user].email, access_token_expires)
             refresh_token == create_refresh_token(users[user].email, refresh_token_expires)
         IN  /\ Cardinality(issued \cup {access_token, refresh_token}) <= MaxTokens
             /\ issued' = issued \cup {access_token, refresh_token}
             /\ resp' = Resp("login", 200, "Login successful", email, password, NoToken,
                             user, {access_token, refresh_token}, 0, FALSE)
             /\ UNCHANGED <<users, sessions, now>>

\* verify_token is called without a token type and its (is_valid, email) pair
\* is used as if it were the email.
refresh_token(token) ==
    IF token = NoToken
    THEN /\ resp' = Resp("refresh_token", 401, "Refresh token missing", NoEmail, "",
                         token, NoUser, {}, 0, FALSE)
         /\ UNCHANGED <<users, sessions, issued, now>>
    ELSE LET email == verify_token(token, DefaultTokenType) IN
         \E q \in QueryOutcomes(email) :
            IF ~Truthy(email) \/ q.raised \/ q.row = NoUser \/ ~users[q.row].is_active
            THEN /\ resp' = Resp("refresh_token", 401, "Could not validate refresh token",
                                 NoEmail, "", token, NoUser, {}, 0, FALSE)
                 /\ UNCHANGED <<users, sessions, issued, now>>
            ELSE LET access_token == create_access_token(email.str, 0)
                     new_refresh_token == create_refresh_token(email.str, 0)
                 IN  /\ Cardinality(issued \cup {access_token, new_refresh_token}) <= MaxTokens
                     /\ issued' = issued \cup {access_token, new_refresh_token}
                     /\ resp' = Resp("refresh_token", 200, "", email.str, "", token,
                                     q.row, {access_token, new_refresh_token}, 0, FALSE)
                     /\ UNCHANGED <<users, sessions, now>>

\* Clears the refresh_token cookie of the response; no stored state is touched.
\* The handler takes the response only: whatever session token the request
\* carries is never read.
logout(token) ==
    /\ resp' = Resp("logout", 200, "Logged out successfully", NoEmail, "", token,
                    NoUser, {}, 0, FALSE)
    /\ UNCHANGED <<users, sessions, issued, now>>

\* forgot_password without the test for the user's existence.
forgot_password_always_sends(email) ==
    LET reset_token == create_password_reset_token(email) IN
    \E email_sent \in BOOLEAN :
       /\ Cardinality(issued \cup {reset_token}) <= MaxTokens
       /\ issued' = issued \cup {reset_token}
       /\ resp' = Resp("forgot_password", 200, "Password reset email sent", email, "",
                       NoToken, NoUser, {}, 1, email_sent)
       /\ UNCHANGED <<users, sessions, now>>

\* What forgot_password answers when no user has the email.
NoAccountResponse ==
    [status |-> 200,
     detail |-> "If a user with this email exists, a password reset email has been sent",
     email_sent |-> FALSE]

forgot_password(email) ==
    IF user_by_email(email) = NoUser
    THEN /\ resp' = Resp("forgot_password", 200,
                         "If a user with this email exists, a password reset email has been sent",
                         email, "", NoToken, NoUser, {}, 0, FALSE)
         /\ UNCHANGED <<users, sessions, issued, now>>
    ELSE LET reset_token == create_password_reset_token(email) IN
         \E email_sent \in BOOLEAN :
            /\ Cardinality(issued \cup {reset_token}) <= MaxTokens
            /\ issued' = issued \cup {reset_token}
            /\ resp' = Resp("forgot_password", 200, "Password reset email sent", email, "",
                            NoToken, NoUser, {}, 1, email_sent)
            /\ UNCHANGED <<users, sessions, now>>

\* As in refresh_token: the pair returned by verify_token (called without a
\* token type) is tested for truth and used as the email of the query.
reset_password(token, new_password) ==
    LET email == verify_token(token, DefaultTokenType) IN
    \E q \in QueryOutcomes(email) :
        IF ~Truthy(email) \/ q.raised \/ q.row = NoUser
        THEN /\ resp' = Resp("reset_password", 400, "Password reset failed", NoEmail,
                             new_password, token, NoUser, {}, 0, FALSE)
             /\ UNCHANGED <<users, sessions, issued, now>>
        ELSE /\ users' = [users EXCEPT ![q.row].hashed_password = hash_password(new_password)]
             /\ resp' = Resp("reset_password", 200, "Password reset successful", email.str,
                             new_password, token, NoUser, {}, 0, FALSE)
             /\ UNCHANGED <<sessions, issued, now>>

----------------------------------------------------------------------------
(* services/auth_service.py: AuthService *)

\* The user for a correct password of an active account, None otherwise.
authenticate_user(email, password) ==
    LET user == user_by_email(email) IN
    IF user = NoUser THEN NoUser
    ELSE IF ~verify_password(password, users[user].hashed_password) THEN NoUser
    ELSE IF ~users[user].is_active THEN NoUser
    ELSE user

\* validate_session with the expiry compared by >= (a session still accepted
\* at the instant it expires).
valid_session_row_inclusive(token) ==
    LET rows == {i \in SessionIds : /\ sessions[i].token = token
                                    /\ sessions[i].is_active = TRUE
                                    /\ sessions[i].expires_at >= now}
    IN  IF rows = {} THEN 0 ELSE CHOOSE i \in rows : \A j \in rows : i <= j

\* The row validate_session's query returns (.first()), 0 when there is none.
valid_session_row(token) ==
    LET rows == {i \in SessionIds : /\ sessions[i].token = token
                                    /\ sessions[i].is_active = TRUE
                                    /\ sessions[i].expires_at > now}
    IN  IF rows = {} THEN 0 ELSE CHOOSE i \in rows : \A j \in rows : i <= j

\* terminate_session's query without the filter on the token.
active_session_row_any_token(token) ==
    LET rows == {i \in SessionIds : sessions[i].is_active = TRUE}
    IN  IF rows = {} THEN 0 ELSE CHOOSE i \in rows : \A j \in rows : i <= j

\* The row terminate_session's query returns, 0 when there is none.
active_session_row(token) ==
    LET rows == {i \in SessionIds : /\ sessions[i].token = token
                                    /\ sessions[i].is_active = TRUE}
    IN  IF rows = {} THEN 0 ELSE CHOOSE i \in rows : \A j \in rows : i <= j

\* secrets.token_urlsafe(32): a token no earlier session carries.
fresh_session_token == OpaqueToken(Len(sessions) + 1)

process_email_verification(token) ==
    LET r == verify_token(token, DefaultTokenType)
        user == user_by_email(r.str)
    IN  IF ~r.ok \/ r.str = NoEmail
        THEN /\ resp' = Resp("process_email_verification", 0,
                             "Invalid or expired verification token", NoEmail, "", token,
                             NoUser, {}, 0, FALSE)
             /\ UNCHANGED <<users, sessions, issued, now>>
        ELSE IF user = NoUser
        THEN /\ resp' = Resp("process_email_verification", 0, "User not found", r.str, "",
                             token, NoUser, {}, 0, FALSE)
             /\ UNCHANGED <<users, sessions, issued, now>>
        ELSE IF users[user].is_active
        THEN /\ resp' = Resp("process_email_verification", 1, "Email already verified",
                             r.str, "", token, NoUser, {}, 0, FALSE)
             /\ UNCHANGED <<users, sessions, issued, now>>
        ELSE /\ users' = [users EXCEPT ![user].is_active = TRUE]
             /\ resp' = Resp("process_email_verification", 1, "Email verification successful",
                             r.str, "", token, NoUser, {}, 0, FALSE)
             /\ UNCHANGED <<sessions, issued, now>>

authenticate(email, password) ==
    /\ resp' = Resp("authenticate_user", 0, "", email, password, NoToken,
                    authenticate_user(email, password), {}, 0, FALSE)
    /\ UNCHANGED <<users, sessions, issued, now>>

create_user_session(user) ==
    LET token == fresh_session_token
        expires_at == now + session_expire_days * MinutesPerDay
    IN  /\ Len(sessions) < MaxSessions
        /\ sessions' = Append(sessions, [user_id |-> user, token |-> token,
                                         expires_at |-> expires_at, created_at |-> now,
                                         last_active_at |-> now, is_active |-> TRUE])
        /\ users' = [users EXCEPT ![user].last_login = now]
        /\ resp' = Resp("create_user_session", 0, "", users[user].email, "", NoToken,
                        user, {token}, 0, FALSE)
        /\ UNCHANGED <<issued, now>>

validate_session(token) ==
    LET session == valid_session_row(token) IN
    IF session = 0
    THEN /\ resp' = Resp("validate_session", 0, "", NoEmail, "", token, NoUser, {}, 0, FALSE)
         /\ UNCHANGED <<users, sessions, issued, now>>
    ELSE /\ sessions' = [sessions EXCEPT ![session].last_active_at = now]
         /\ resp' = Resp("validate_session", 0, "", NoEmail, "", token,
                         sessions[session].user_id, {}, 0, FALSE)
         /\ UNCHANGED <<users, issued, now>>

\* terminate_session flipping is_active of the row that carries the token.
terminate_session_toggles(token) ==
    LET rows == {i \in SessionIds : sessions[i].token = token} IN
    IF rows = {}
    THEN /\ resp' = Resp("terminate_session", 0, "False", NoEmail, "", token, NoUser, {},
                         0, FALSE)
         /\ UNCHANGED <<users, sessions, issued, now>>
    ELSE /\ sessions' = [sessions EXCEPT ![CHOOSE i \in rows : TRUE].is_active = ~@]
         /\ resp' = Resp("terminate_session", 0, "True", NoEmail, "", token, NoUser, {},
                         0, FALSE)
         /\ UNCHANGED <<users, issued, now>>

terminate_session(token) ==
    LET session == active_session_row(token) IN
    IF session = 0
    THEN /\ resp' = Resp("terminate_session", 0, "False", NoEmail, "", token, NoUser, {},
                         0, FALSE)
         /\ UNCHANGED <<users, sessions, issued, now>>
    ELSE /\ sessions' = [sessions EXCEPT ![session].is_active = FALSE]
         /\ resp' = Resp("terminate_session", 0, "True", NoEmail, "", token, NoUser, {},
                         0, FALSE)
         /\ UNCHANGED <<users, issued, now>>

\* The dependency of every team route: the Bearer token is looked up as a
\* session token.
get_current_user(token) ==
    LET session == valid_session_row(token) IN
    IF token = NoToken
    THEN /\ resp' = Resp("get_current_user", 401, "Not authenticated", NoEmail, "", token,
                         NoUser, {}, 0, FALSE)
         /\ UNCHANGED <<users, sessions, issued, now>>
    ELSE IF session = 0
    THEN /\ resp' = Resp("get_current_user", 401, "Invalid or expired token", NoEmail, "",
                         token, NoUser, {}, 0, FALSE)
         /\ UNCHANGED <<users, sessions, issued, now>>
    ELSE /\ sessions' = [sessions EXCEPT ![session].last_active_at = now]
         /\ resp' = Resp("get_current_user", 200, "", NoEmail, "", token,
                         sessions[session].user_id, {}, 0, FALSE)
         /\ UNCHANGED <<users, issued, now>>

----------------------------------------------------------------------------
(* The clock *)

Tick ==
    /\ now + TickStep <= MaxTime
    /\ now' = now + TickStep
    /\ resp' = Resp("tick", 0, "", NoEmail, "", NoToken, NoUser, {}, 0, FALSE)
    /\ UNCHANGED <<users, sessions, issued>>
    /\ UNCHANGED teamVars

SvcTick ==
    /\ now + SvcTickStep <= SvcMaxTime
    /\ now' = now + SvcTickStep
    /\ resp' = Resp("tick", 0, "", NoEmail, "", NoToken, NoUser, {}, 0, FALSE)
    /\ UNCHANGED <<users, sessions, issued>>
    /\ UNCHANGED teamVars

----------------------------------------------------------------------------
(* Teams: services/team_service.py, called with the caller's user id *)

TeamNames == {"Acme"}
NoDescription == "none"
Codes == {"AAAA1111", "BBBB2222"}

\* Ids a caller can name: those of the stored users and one that has no row.
CallerIds == 1..(Len(users) + 1)
TeamIds == 1..MaxTeams

user_exists(user_id) == user_id \in UserIds

Team(id, name, description, invite_code, created_by_id) ==
    [id |-> id, name |-> name, description |-> description,
     invite_code |-> invite_code, created_by_id |-> created_by_id]

\* A row of team_members; (user_id, team_id) is its primary key.
Membership(user_id, team_id, role) ==
    [user_id |-> user_id, team_id |-> team_id, role |-> role, joined_at |-> now,
     is_active |-> TRUE]

\* db.query(Team).filter(Team.id == team_id).first(): the id of the committed
\* row, NoTeam when there is none.
get_team_by_id(team_id) ==
    IF \E t \in teams : t.id = team_id THEN team_id ELSE NoTeam

\* db.query(Team).filter(Team.invite_code == invite_code).first()
team_by_invite_code(invite_code) ==
    IF \E t \in teams : t.invite_code = invite_code
    THEN (CHOOSE t \in teams : t.invite_code = invite_code).id
    ELSE NoTeam

\* The rows of team_members for the pair, whatever their is_active.
membership_rows(user_id, team_id) ==
    {m \in members : m.user_id = user_id /\ m.team_id = team_id}

\* The role of the pair's row, active or not.
role_of_any_row(user_id, team_id) ==
    LET rows == membership_rows(user_id, team_id)
    IN  IF rows = {} THEN "" ELSE (CHOOSE m \in rows : TRUE).role

\* The role of the pair's active row, the empty string when there is none.
active_role(user_id, team_id) ==
    LET rows == {m \in membership_rows(user_id, team_id) : m.is_active = TRUE}
    IN  IF rows = {} THEN "" ELSE (CHOOSE m \in rows : TRUE).role

\* The autoincrement id the next inserted team gets.  Ids are opaque: the id
\* of an insert that was rolled back was never seen by anyone, and the model
\* hands it out again, which keeps the ids within 1..MaxTeams.
next_team_id ==
    LET used == {t.id : t \in teams} \cup {p.team.id : p \in pending}
    IN  CHOOSE i \in 1..(Cardinality(used) + 1) :
           /\ i \notin used
           /\ \A j \in 1..(Cardinality(used) + 1) : j \notin used => i <= j

\* create_team whose flush already commits the team row.
create_team_flush_commits(creator_id, name, invite_code) ==
    IF ~user_exists(creator_id)
    THEN /\ tresp' = TResp("create_team", 404, "User not found", creator_id, NoTeam,
                           NoCode, {})
         /\ UNCHANGED <<teams, members, pending>>
    ELSE IF \E t \in teams : t.invite_code = invite_code
    THEN /\ tresp' = TResp("create_team", 500, "Internal Server Error", creator_id, NoTeam,
                           NoCode, {})
         /\ UNCHANGED <<teams, members, pending>>
    ELSE LET team == Team(next_team_id, name, NoDescription, invite_code, creator_id) IN
         /\ Cardinality(pending) < MaxPending
         /\ Cardinality(teams) + Cardinality(pending) < MaxTeams
         /\ \A p \in pending : p.team.invite_code # invite_code
         /\ teams' = teams \cup {team}
         /\ pending' = pending \cup {[team |-> team, rows |-> {}]}
         /\ tresp' = TResp("create_team", 0, "flushed", creator_id, NoTeam, NoCode, {})
         /\ UNCHANGED members

\* create_team up to db.flush(): the creator is looked up, an invite code is
\* drawn, and the team row is inserted inside the still open transaction.
\* A code that a committed team carries violates the unique index and the
\* request dies with the transaction rolled back; a code that an uncommitted
\* insert carries makes the insert wait for that transaction.
create_team_flush(creator_id, name, invite_code) ==
    IF ~user_exists(creator_id)
    THEN /\ tresp' = TResp("create_team", 404, "User not found", creator_id, NoTeam,
                           NoCode, {})
         /\ UNCHANGED <<teams, members, pending>>
    ELSE IF \E t \in teams : t.invite_code = invite_code
    THEN /\ tresp' = TResp("create_team", 500, "Internal Server Error", creator_id, NoTeam,
                           NoCode, {})
         /\ UNCHANGED <<teams, members, pending>>
    ELSE LET team == Team(next_team_id, name, NoDescription, invite_code, creator_id) IN
         /\ Cardinality(pending) < MaxPending
         /\ Cardinality(teams) + Cardinality(pending) < MaxTeams
         /\ \A p \in pending : p.team.invite_code # invite_code
         /\ pending' = pending \cup {[team |-> team, rows |-> {}]}
         /\ tresp' = TResp("create_team", 0, "flushed", creator_id, NoTeam, NoCode, {})
         /\ UNCHANGED <<teams, members>>

\* db.execute(team_members.insert()...): the creator's admin row, still
\* inside the transaction.
create_team_insert_member(p) ==
    /\ p.rows = {}
    /\ pending' = (pending \ {p}) \cup
                     {[p EXCEPT !.rows = {Membership(p.team.created_by_id, p.team.id, "admin")}]}
    /\ tresp' = TResp("create_team", 0, "inserted", p.team.created_by_id, NoTeam, NoCode, {})
    /\ UNCHANGED <<teams, members>>

\* db.commit(): both rows become visible together.
create_team_commit(p) ==
    /\ p.rows # {}
    /\ teams' = teams \cup {p.team}
    /\ members' = members \cup p.rows
    /\ pending' = pending \ {p}
    /\ tresp' = TResp("create_team", 201, "", p.team.created_by_id, p.team.id,
                      p.team.invite_code, {})

\* The request dies between flush and commit: get_db rolls the transaction
\* back and nothing of it is kept.
create_team_rollback(p) ==
    /\ pending' = pending \ {p}
    /\ tresp' = TResp("create_team", 500, "Internal Server Error", p.team.created_by_id,
                      NoTeam, NoCode, {})
    /\ UNCHANGED <<teams, members>>

\* join_team_by_invite_code without the test for an existing membership.
join_team_by_invite_code_unchecked(user_id, invite_code) ==
    LET team == team_by_invite_code(invite_code) IN
    IF ~user_exists(user_id)
    THEN /\ tresp' = TResp("join_team_by_invite_code", 404, "User not found", user_id,
                           NoTeam, invite_code, {})
         /\ UNCHANGED <<teams, members, pending>>
    ELSE IF team = NoTeam
    THEN /\ tresp' = TResp("join_team_by_invite_code", 404, "Invalid invite code", user_id,
                           NoTeam, invite_code, {})
         /\ UNCHANGED <<teams, members, pending>>
    ELSE /\ members' = (members \ membership_rows(user_id, team))
                          \cup {Membership(user_id, team, "member")}
         /\ tresp' = TResp("join_team_by_invite_code", 200, "member", user_id, team,
                           invite_code, {})
         /\ UNCHANGED <<teams, pending>>

\* join_team_by_invite_code giving the joiner the role admin.
join_team_by_invite_code_as_admin(user_id, invite_code) ==
    LET team == team_by_invite_code(invite_code) IN
    IF ~user_exists(user_id)
    THEN /\ tresp' = TResp("join_team_by_invite_code", 404, "User not found", user_id,
                           NoTeam, invite_code, {})
         /\ UNCHANGED <<teams, members, pending>>
    ELSE IF team = NoTeam
    THEN /\ tresp' = TResp("join_team_by_invite_code", 404, "Invalid invite code", user_id,
                           NoTeam, invite_code, {})
         /\ UNCHANGED <<teams, members, pending>>
    ELSE IF membership_rows(user_id, team) # {}
    THEN /\ tresp' = TResp("join_team_by_invite_code", 400,
                           "User is already a member of this team", user_id, team,
                           invite_code, {})
         /\ UNCHANGED <<teams, members, pending>>
    ELSE /\ members' = members \cup {Membership(user_id, team, "admin")}
         /\ tresp' = TResp("join_team_by_invite_code", 200, "member", user_id, team,
                           invite_code, {})
         /\ UNCHANGED <<teams, pending>>

\* join_team_by_invite_code that reactivates the stored row before it answers
\* that the user is already a member.
join_team_by_invite_code_reactivates(user_id, invite_code) ==
    LET team == team_by_invite_code(invite_code) IN
    IF ~user_exists(user_id)
    THEN /\ tresp' = TResp("join_team_by_invite_code", 404, "User not found", user_id,
                           NoTeam, invite_code, {})
         /\ UNCHANGED <<teams, members, pending>>
    ELSE IF team = NoTeam
    THEN /\ tresp' = TResp("join_team_by_invite_code", 404, "Invalid invite code", user_id,
                           NoTeam, invite_code, {})
         /\ UNCHANGED <<teams, members, pending>>
    ELSE IF membership_rows(user_id, team) # {}
    THEN /\ tresp' = TResp("join_team_by_invite_code", 400,
                           "User is already a member of this team", user_id, team,
                           invite_code, {})
         /\ members' = {IF m.user_id = user_id /\ m.team_id = team
                        THEN [m EXCEPT !.is_active = TRUE] ELSE m : m \in members}
         /\ UNCHANGED <<teams, pending>>
    ELSE /\ members' = members \cup {Membership(user_id, team, "member")}
         /\ tresp' = TResp("join_team_by_invite_code", 200, "member", user_id, team,
                           invite_code, {})
         /\ UNCHANGED <<teams, pending>>

join_team_by_invite_code(user_id, invite_code) ==
    LET team == team_by_invite_code(invite_code) IN
    IF ~user_exists(user_id)
    THEN /\ tresp' = TResp("join_team_by_invite_code", 404, "User not found", user_id,
                           NoTeam, invite_code, {})
         /\ UNCHANGED <<teams, members, pending>>
    ELSE IF team = NoTeam
    THEN /\ tresp' = TResp("join_team_by_invite_code", 404, "Invalid invite code", user_id,
                           NoTeam, invite_code, {})
         /\ UNCHANGED <<teams, members, pending>>
    ELSE IF membership_rows(user_id, team) # {}
    THEN /\ tresp' = TResp("join_team_by_invite_code", 400,
                           "User is already a member of this team", user_id, team,
                           invite_code, {})
         /\ UNCHANGED <<teams, members, pending>>
    ELSE /\ members' = members \cup {Membership(user_id, team, "member")}
         /\ tresp' = TResp("join_team_by_invite_code", 200, "member", user_id, team,
                           invite_code, {})
         /\ UNCHANGED <<teams, pending>>

\* The ids of the teams the user has an active membership in.
get_user_teams(user_id) ==
    /\ tresp' = TResp("get_user_teams", 200, "", user_id, NoTeam, NoCode,
                      {t.id : t \in {t \in teams :
                                       \E m \in members : /\ m.team_id = t.id
                                                          /\ m.user_id = user_id
                                                          /\ m.is_active = TRUE}})
    /\ UNCHANGED <<teams, members, pending>>

\* remove_team_member deleting the row instead of deactivating it.
remove_team_member_deletes(team_id, admin_id, member_id) ==
    IF get_team_by_id(team_id) = NoTeam
    THEN /\ tresp' = TResp("remove_team_member", 404, "Team not found", admin_id, team_id,
                           NoCode, {})
         /\ UNCHANGED <<teams, members, pending>>
    ELSE IF active_role(admin_id, team_id) \notin {"admin", "owner"}
    THEN /\ tresp' = TResp("remove_team_member", 403,
                           "You don't have permission to remove members from this team",
                           admin_id, team_id, NoCode, {})
         /\ UNCHANGED <<teams, members, pending>>
    ELSE IF admin_id = member_id
    THEN /\ tresp' = TResp("remove_team_member", 400,
                           "You cannot remove yourself from the team", admin_id, team_id,
                           NoCode, {})
         /\ UNCHANGED <<teams, members, pending>>
    ELSE IF active_role(member_id, team_id) = ""
    THEN /\ tresp' = TResp("remove_team_member", 404, "User is not a member of this team",
                           admin_id, team_id, NoCode, {})
         /\ UNCHANGED <<teams, members, pending>>
    ELSE /\ members' = {m \in members : ~(m.user_id = member_id /\ m.team_id = team_id)}
         /\ tresp' = TResp("remove_team_member", 200, "True", admin_id, team_id, NoCode, {})
         /\ UNCHANGED <<teams, pending>>

\* remove_team_member without the test for self-removal.
remove_team_member_allows_self(team_id, admin_id, member_id) ==
    IF get_team_by_id(team_id) = NoTeam
    THEN /\ tresp' = TResp("remove_team_member", 404, "Team not found", admin_id, team_id,
                           NoCode, {})
         /\ UNCHANGED <<teams, members, pending>>
    ELSE IF active_role(admin_id, team_id) \notin {"admin", "owner"}
    THEN /\ tresp' = TResp("remove_team_member", 403,
                           "You don't have permission to remove members from this team",
                           admin_id, team_id, NoCode, {})
         /\ UNCHANGED <<teams, members, pending>>
    ELSE IF FALSE
    THEN /\ tresp' = TResp("remove_team_member", 400,
                           "You cannot remove yourself from the team", admin_id, team_id,
                           NoCode, {})
         /\ UNCHANGED <<teams, members, pending>>
    ELSE IF active_role(member_id, team_id) = ""
    THEN /\ tresp' = TResp("remove_team_member", 404, "User is not a member of this team",
                           admin_id, team_id, NoCode, {})
         /\ UNCHANGED <<teams, members, pending>>
    ELSE /\ members' = {IF m.user_id = member_id /\ m.team_id = team_id
                        THEN [m EXCEPT !.is_active = FALSE] ELSE m : m \in members}
         /\ tresp' = TResp("remove_team_member", 200, "True", admin_id, team_id, NoCode, {})
         /\ UNCHANGED <<teams, pending>>

\* remove_team_member whose UPDATE lacks the filter on user_id.
remove_team_member_whole_team(team_id, admin_id, member_id) ==
    IF get_team_by_id(team_id) = NoTeam
    THEN /\ tresp' = TResp("remove_team_member", 404, "Team not found", admin_id, team_id,
                           NoCode, {})
         /\ UNCHANGED <<teams, members, pending>>
    ELSE IF active_role(admin_id, team_id) \notin {"admin", "owner"}
    THEN /\ tresp' = TResp("remove_team_member", 403,
                           "You don't have permission to remove members from this team",
                           admin_id, team_id, NoCode, {})
         /\ UNCHANGED <<teams, members, pending>>
    ELSE IF admin_id = member_id
    THEN /\ tresp' = TResp("remove_team_member", 400,
                           "You cannot remove yourself from the team", admin_id, team_id,
                           NoCode, {})
         /\ UNCHANGED <<teams, members, pending>>
    ELSE IF active_role(member_id, team_id) = ""
    THEN /\ tresp' = TResp("remove_team_member", 404, "User is not a member of this team",
                           admin_id, team_id, NoCode, {})
         /\ UNCHANGED <<teams, members, pending>>
    ELSE /\ members' = {IF m.team_id = team_id
                        THEN [m EXCEPT !.is_active = FALSE] ELSE m : m \in members}
         /\ tresp' = TResp("remove_team_member", 200, "True", admin_id, team_id, NoCode, {})
         /\ UNCHANGED <<teams, pending>>

remove_team_member(team_id, admin_id, member_id) ==
    IF get_team_by_id(team_id) = NoTeam
    THEN /\ tresp' = TResp("remove_team_member", 404, "Team not found", admin_id, team_id,
                           NoCode, {})
         /\ UNCHANGED <<teams, members, pending>>
    ELSE IF active_role(admin_id, team_id) \notin {"admin", "owner"}
    THEN /\ tresp' = TResp("remove_team_member", 403,
                           "You don't have permission to remove members from this team",
                           admin_id, team_id, NoCode, {})
         /\ UNCHANGED <<teams, members, pending>>
    ELSE IF admin_id = member_id
    THEN /\ tresp' = TResp("remove_team_member", 400,
                           "You cannot remove yourself from the team", admin_id, team_id,
                           NoCode, {})
         /\ UNCHANGED <<teams, members, pending>>
    ELSE IF active_role(member_id, team_id) = ""
    THEN /\ tresp' = TResp("remove_team_member", 404, "User is not a member of this team",
                           admin_id, team_id, NoCode, {})
         /\ UNCHANGED <<teams, members, pending>>
    ELSE /\ members' = {IF m.user_id = member_id /\ m.team_id = team_id
                        THEN [m EXCEPT !.is_active = FALSE] ELSE m : m \in members}
         /\ tresp' = TResp("remove_team_member", 200, "True", admin_id, team_id, NoCode, {})
         /\ UNCHANGED <<teams, pending>>

\* join_team_by_invite_code up to its three queries, for a request that
\* passes them: the user exists, the code names a team and the pair has no
\* row yet.  The insert follows in a later step, so that another request can
\* run in between.
join_team_check(user_id, invite_code) ==
    LET team == team_by_invite_code(invite_code)
        free == {r \in 1..MaxJoining : \A j \in joining : j.req # r}
    IN  /\ user_exists(user_id)
        /\ team # NoTeam
        /\ membership_rows(user_id, team) = {}
        /\ free # {}
        /\ joining' = joining \cup
              {[req |-> CHOOSE r \in free : \A q \in free : r <= q,
                user_id |-> user_id, team_id |-> team, code |-> invite_code]}
        /\ tresp' = TResp("join_team_by_invite_code", 0, "checked", user_id, team,
                          invite_code, {})
        /\ UNCHANGED <<teams, members, pending, invitations>>

\* The insert of such a request and its commit.  When another request has
\* inserted a row for the pair in the meantime, the primary key of
\* team_members rejects the insert: db.execute raises IntegrityError, which
\* nothing catches, and the request ends as 500 with the transaction rolled
\* back.
join_team_insert(j) ==
    IF membership_rows(j.user_id, j.team_id) # {}
    THEN /\ joining' = joining \ {j}
         /\ tresp' = TResp("join_team_by_invite_code", 500, "Internal Server Error",
                           j.user_id, j.team_id, j.code, {})
         /\ UNCHANGED <<teams, members, pending, invitations>>
    ELSE /\ joining' = joining \ {j}
         /\ members' = members \cup {Membership(j.user_id, j.team_id, "member")}
         /\ tresp' = TResp("join_team_by_invite_code", 200, "member", j.user_id, j.team_id,
                           j.code, {})
         /\ UNCHANGED <<teams, pending, invitations>>

NoName == "none"

\* update_team without the test of the caller's role.
update_team_unchecked(team_id, user_id, name, description) ==
    IF get_team_by_id(team_id) = NoTeam
    THEN /\ tresp' = TResp("update_team", 404, "Team not found", user_id, team_id, NoCode, {})
         /\ UNCHANGED <<teams, members, pending, joining, invitations>>
    ELSE /\ teams' = {IF t.id = team_id
                      THEN [t EXCEPT !.name = IF name # NoName THEN name ELSE @,
                                     !.description = IF description # NoDescription
                                                     THEN description ELSE @]
                      ELSE t : t \in teams}
         /\ tresp' = TResp("update_team", 200, "", user_id, team_id, NoCode, {})
         /\ UNCHANGED <<members, pending, joining, invitations>>

\* update_team assigning both fields whether or not they were provided.
update_team_overwrites(team_id, user_id, name, description) ==
    IF get_team_by_id(team_id) = NoTeam
    THEN /\ tresp' = TResp("update_team", 404, "Team not found", user_id, team_id, NoCode, {})
         /\ UNCHANGED <<teams, members, pending, joining, invitations>>
    ELSE IF active_role(user_id, team_id) \notin {"admin", "owner"}
    THEN /\ tresp' = TResp("update_team", 403,
                           "You don't have permission to update this team", user_id,
                           team_id, NoCode, {})
         /\ UNCHANGED <<teams, members, pending, joining, invitations>>
    ELSE /\ teams' = {IF t.id = team_id
                      THEN [t EXCEPT !.name = name, !.description = description]
                      ELSE t : t \in teams}
         /\ tresp' = TResp("update_team", 200, "", user_id, team_id, NoCode, {})
         /\ UNCHANGED <<members, pending, joining, invitations>>

update_team(team_id, user_id, name, description) ==
    IF get_team_by_id(team_id) = NoTeam
    THEN /\ tresp' = TResp("update_team", 404, "Team not found", user_id, team_id, NoCode, {})
         /\ UNCHANGED <<teams, members, pending, joining, invitations>>
    ELSE IF active_role(user_id, team_id) \notin {"admin", "owner"}
    THEN /\ tresp' = TResp("update_team", 403,
                           "You don't have permission to update this team", user_id,
                           team_id, NoCode, {})
         /\ UNCHANGED <<teams, members, pending, joining, invitations>>
    ELSE /\ teams' = {IF t.id = team_id
                      THEN [t EXCEPT !.name = IF name # NoName THEN name ELSE @,
                                     !.description = IF description # NoDescription
                                                     THEN description ELSE @]
                      ELSE t : t \in teams}
         /\ tresp' = TResp("update_team", 200, "", user_id, team_id, NoCode, {})
         /\ UNCHANGED <<members, pending, joining, invitations>>

\* regenerate_invite_code on a table without the unique index on invite_code.
regenerate_invite_code_no_unique(team_id, user_id, new_code) ==
    IF get_team_by_id(team_id) = NoTeam
    THEN /\ tresp' = TResp("regenerate_invite_code", 404, "Team not found", user_id,
                           team_id, NoCode, {})
         /\ UNCHANGED <<teams, members, pending, joining, invitations>>
    ELSE IF active_role(user_id, team_id) \notin {"admin", "owner"}
    THEN /\ tresp' = TResp("regenerate_invite_code", 403,
                           "You don't have permission to regenerate the invite code",
                           user_id, team_id, NoCode, {})
         /\ UNCHANGED <<teams, members, pending, joining, invitations>>
    ELSE /\ teams' = {IF t.id = team_id THEN [t EXCEPT !.invite_code = new_code] ELSE t :
                         t \in teams}
         /\ tresp' = TResp("regenerate_invite_code", 200, "", user_id, team_id, new_code, {})
         /\ UNCHANGED <<members, pending, joining, invitations>>

\* new_code is what _generate_invite_code draws: any code, the team's present
\* one and those of other teams included.  The commit of a code that another
\* committed team carries violates the unique index and the request ends as
\* 500 with nothing written; a code that an uncommitted create_team carries
\* makes the update wait for that transaction.
regenerate_invite_code(team_id, user_id, new_code) ==
    IF get_team_by_id(team_id) = NoTeam
    THEN /\ tresp' = TResp("regenerate_invite_code", 404, "Team not found", user_id,
                           team_id, NoCode, {})
         /\ UNCHANGED <<teams, members, pending, joining, invitations>>
    ELSE IF active_role(user_id, team_id) \notin {"admin", "owner"}
    THEN /\ tresp' = TResp("regenerate_invite_code", 403,
                           "You don't have permission to regenerate the invite code",
                           user_id, team_id, NoCode, {})
         /\ UNCHANGED <<teams, members, pending, joining, invitations>>
    ELSE IF \E t \in teams : t.id # team_id /\ t.invite_code = new_code
    THEN /\ tresp' = TResp("regenerate_invite_code", 500, "Internal Server Error", user_id,
                           team_id, NoCode, {})
         /\ UNCHANGED <<teams, members, pending, joining, invitations>>
    ELSE /\ \A p \in pending : p.team.invite_code # new_code
         /\ teams' = {IF t.id = team_id THEN [t EXCEPT !.invite_code = new_code] ELSE t :
                         t \in teams}
         /\ tresp' = TResp("regenerate_invite_code", 200, "", user_id, team_id, new_code, {})
         /\ UNCHANGED <<members, pending, joining, invitations>>

InviteeEmails == Emails \cup {"c@x"}

\* A row of team_invitations.
TeamInvitation(id, team_id, inviter_id, invitee_id, invitee_email, token, expires_at) ==
    [id |-> id, team_id |-> team_id, inviter_id |-> inviter_id, invitee_id |-> invitee_id,
     invitee_email |-> invitee_email, status |-> "pending", token |-> token,
     expires_at |-> expires_at]

\* The pending invitation the query of create_team_invitation returns: matched
\* on invitee_id when one is given, on invitee_email otherwise.
existing_invitation(team_id, invitee_email, invitee_id) ==
    {i \in invitations : /\ i.team_id = team_id
                         /\ i.status = "pending"
                         /\ IF invitee_id # NoUser
                            THEN i.invitee_id = invitee_id
                            ELSE i.invitee_email = invitee_email}

\* The unique constraints of team_invitations on (team_id, invitee_id, status)
\* and (team_id, invitee_email, status); a NULL invitee_id conflicts with
\* nothing.
invitation_conflicts(row) ==
    \E i \in invitations :
       /\ i.team_id = row.team_id
       /\ i.status = row.status
       /\ \/ i.invitee_email = row.invitee_email
          \/ (row.invitee_id # NoUser /\ i.invitee_id = row.invitee_id)

\* create_team_invitation open to team admins only.
create_team_invitation_admin_only(team_id, inviter_id, invitee_email, invitee_id) ==
    LET existing == existing_invitation(team_id, invitee_email, invitee_id)
        id == Cardinality(invitations) + 1
        row == TeamInvitation(id, team_id, inviter_id, invitee_id, invitee_email,
                              OpaqueToken(id), now + expiration_days * MinutesPerDay)
    IN  IF active_role(inviter_id, team_id) # "admin"
        THEN /\ tresp' = TResp("create_team_invitation", 403,
                               "You are not a member of this team", inviter_id, team_id,
                               NoCode, {})
             /\ UNCHANGED <<teams, members, pending, joining, invitations>>
        ELSE IF existing # {}
        THEN /\ tresp' = TResp("create_team_invitation", 201, "", inviter_id, team_id, NoCode,
                               {(CHOOSE i \in existing : \A k \in existing : i.id <= k.id).id})
             /\ UNCHANGED <<teams, members, pending, joining, invitations>>
        ELSE /\ Cardinality(invitations) < MaxInvitations
             /\ invitations' = invitations \cup {row}
             /\ tresp' = TResp("create_team_invitation", 201, "", inviter_id, team_id, NoCode,
                               {id})
             /\ UNCHANGED <<teams, members, pending, joining>>

\* create_team_invitation without the lookup of a pending invitation, on a
\* table without the unique constraints.
create_team_invitation_no_lookup(team_id, inviter_id, invitee_email, invitee_id) ==
    LET id == Cardinality(invitations) + 1
        row == TeamInvitation(id, team_id, inviter_id, invitee_id, invitee_email,
                              OpaqueToken(id), now + expiration_days * MinutesPerDay)
    IN  IF get_team_by_id(team_id) = NoTeam \/ active_role(inviter_id, team_id) = ""
        THEN /\ tresp' = TResp("create_team_invitation", 403,
                               "You are not a member of this team", inviter_id, team_id,
                               NoCode, {})
             /\ UNCHANGED <<teams, members, pending, joining, invitations>>
        ELSE /\ Cardinality(invitations) < MaxInvitations
             /\ invitations' = invitations \cup {row}
             /\ tresp' = TResp("create_team_invitation", 201, "", inviter_id, team_id, NoCode,
                               {id})
             /\ UNCHANGED <<teams, members, pending, joining>>

\* create_team_invitation whose lookup skips invitations past their expiry.
create_team_invitation_skips_expired(team_id, inviter_id, invitee_email, invitee_id) ==
    LET existing == {i \in existing_invitation(team_id, invitee_email, invitee_id) :
                        i.expires_at > now}
        id == Cardinality(invitations) + 1
        row == TeamInvitation(id, team_id, inviter_id, invitee_id, invitee_email,
                              OpaqueToken(id), now + expiration_days * MinutesPerDay)
    IN  IF get_team_by_id(team_id) = NoTeam
        THEN /\ tresp' = TResp("create_team_invitation", 404, "Team not found", inviter_id,
                               team_id, NoCode, {})
             /\ UNCHANGED <<teams, members, pending, joining, invitations>>
        ELSE IF active_role(inviter_id, team_id) = ""
        THEN /\ tresp' = TResp("create_team_invitation", 403,
                               "You are not a member of this team", inviter_id, team_id,
                               NoCode, {})
             /\ UNCHANGED <<teams, members, pending, joining, invitations>>
        ELSE IF invitee_id # NoUser /\ active_role(invitee_id, team_id) # ""
        THEN /\ tresp' = TResp("create_team_invitation", 400,
                               "User is already a member of this team", inviter_id,
                               team_id, NoCode, {})
             /\ UNCHANGED <<teams, members, pending, joining, invitations>>
        ELSE IF existing # {}
        THEN /\ tresp' = TResp("create_team_invitation", 201, "", inviter_id, team_id, NoCode,
                               {(CHOOSE i \in existing : \A k \in existing : i.id <= k.id).id})
             /\ UNCHANGED <<teams, members, pending, joining, invitations>>
        ELSE IF invitation_conflicts(row)
        THEN /\ tresp' = TResp("create_team_invitation", 500, "Internal Server Error",
                               inviter_id, team_id, NoCode, {})
             /\ UNCHANGED <<teams, members, pending, joining, invitations>>
        ELSE /\ Cardinality(invitations) < MaxInvitations
             /\ invitations' = invitations \cup {row}
             /\ tresp' = TResp("create_team_invitation", 201, "", inviter_id, team_id, NoCode,
                               {id})
             /\ UNCHANGED <<teams, members, pending, joining>>

\* invitee_id is NoUser when the caller names the invitee by email only.
create_team_invitation(team_id, inviter_id, invitee_email, invitee_id) ==
    LET existing == existing_invitation(team_id, invitee_email, invitee_id)
        id == Cardinality(invitations) + 1
        row == TeamInvitation(id, team_id, inviter_id, invitee_id, invitee_email,
                              OpaqueToken(id), now + expiration_days * MinutesPerDay)
    IN  IF get_team_by_id(team_id) = NoTeam
        THEN /\ tresp' = TResp("create_team_invitation", 404, "Team not found", inviter_id,
                               team_id, NoCode, {})
             /\ UNCHANGED <<teams, members, pending, joining, invitations>>
        ELSE IF active_role(inviter_id, team_id) = ""
        THEN /\ tresp' = TResp("create_team_invitation", 403,
                               "You are not a member of this team", inviter_id, team_id,
                               NoCode, {})
             /\ UNCHANGED <<teams, members, pending, joining, invitations>>
        ELSE IF invitee_id # NoUser /\ active_role(invitee_id, team_id) # ""
        THEN /\ tresp' = TResp("create_team_invitation", 400,
                               "User is already a member of this team", inviter_id,
                               team_id, NoCode, {})
             /\ UNCHANGED <<teams, members, pending, joining, invitations>>
        ELSE IF existing # {}
        THEN /\ tresp' = TResp("create_team_invitation", 201, "", inviter_id, team_id, NoCode,
                               {(CHOOSE i \in existing : \A k \in existing : i.id <= k.id).id})
             /\ UNCHANGED <<teams, members, pending, joining, invitations>>
        ELSE IF invitation_conflicts(row)
        THEN /\ tresp' = TResp("create_team_invitation", 500, "Internal Server Error",
                               inviter_id, team_id, NoCode, {})
             /\ UNCHANGED <<teams, members, pending, joining, invitations>>
        ELSE /\ Cardinality(invitations) < MaxInvitations
             /\ invitations' = invitations \cup {row}
             /\ tresp' = TResp("create_team_invitation", 201, "", inviter_id, team_id, NoCode,
                               {id})
             /\ UNCHANGED <<teams, members, pending, joining>>

\* POST /teams/{team_id}/invitations: the body carries the invitee's email
\* only, and no invitee_id is passed on.
invite_to_team(team_id, current_user, invitee_email) ==
    create_team_invitation(team_id, current_user, invitee_email, NoUser)

\* create_team_invitation up to its queries, for a request that passes them
\* and finds no pending invitation.  The insert follows in a later step, so
\* that another request can run in between.
invite_check(team_id, inviter_id, invitee_email, invitee_id) ==
    LET free == {r \in 1..MaxInviting : \A v \in inviting : v.req # r} IN
    /\ get_team_by_id(team_id) # NoTeam
    /\ active_role(inviter_id, team_id) # ""
    /\ ~(invitee_id # NoUser /\ active_role(invitee_id, team_id) # "")
    /\ existing_invitation(team_id, invitee_email, invitee_id) = {}
    /\ free # {}
    /\ inviting' = inviting \cup
          {[req |-> CHOOSE r \in free : \A q \in free : r <= q, team_id |-> team_id,
            inviter_id |-> inviter_id, invitee_email |-> invitee_email,
            invitee_id |-> invitee_id]}
    /\ tresp' = TResp("create_team_invitation", 0, "checked", inviter_id, team_id, NoCode, {})
    /\ UNCHANGED <<teams, members, pending, joining, invitations>>

\* The insert of such a request and its commit.  When another request has
\* stored a pending invitation for the pair in the meantime, a unique
\* constraint of team_invitations rejects the insert: db.commit raises
\* IntegrityError, which nothing catches, and the request ends as 500.
invite_insert(v) ==
    LET id == Cardinality(invitations) + 1
        row == TeamInvitation(id, v.team_id, v.inviter_id, v.invitee_id, v.invitee_email,
                              OpaqueToken(id), now + expiration_days * MinutesPerDay)
    IN  IF invitation_conflicts(row)
        THEN /\ inviting' = inviting \ {v}
             /\ tresp' = TResp("create_team_invitation", 500, "Internal Server Error",
                               v.inviter_id, v.team_id, NoCode, {})
             /\ UNCHANGED <<teams, members, pending, joining, invitations>>
        ELSE /\ Cardinality(invitations) < MaxInvitations
             /\ inviting' = inviting \ {v}
             /\ invitations' = invitations \cup {row}
             /\ tresp' = TResp("create_team_invitation", 201, "", v.inviter_id, v.team_id,
                               NoCode, {id})
             /\ UNCHANGED <<teams, members, pending, joining>>

\* GET /teams/{team_id}: the caller's teams are listed first and the team is
\* looked up only for a member.
get_team(team_id, current_user) ==
    LET is_member == \E t \in teams :
                        /\ t.id = team_id
                        /\ \E m \in members : /\ m.team_id = t.id
                                              /\ m.user_id = current_user
                                              /\ m.is_active = TRUE
    IN  /\ tresp' = IF ~is_member
                    THEN TResp("get_team", 403, "You are not a member of this team",
                               current_user, team_id, NoCode, {})
                    ELSE IF get_team_by_id(team_id) = NoTeam
                    THEN TResp("get_team", 404, "Team not found", current_user, team_id,
                               NoCode, {})
                    ELSE TResp("get_team", 200, "", current_user, team_id, NoCode, {team_id})
        /\ UNCHANGED <<teams, members, pending, joining, invitations, inviting>>

\* Time passing between two team requests.
InviteTick ==
    /\ now + InviteTickStep <= InviteMaxTime
    /\ now' = now + InviteTickStep
    /\ tresp' = TResp("tick", 0, "", NoUser, NoTeam, NoCode, {})
    /\ UNCHANGED <<users, sessions, issued, resp>>
    /\ UNCHANGED <<teams, members, pending, joining, invitations, inviting>>

----------------------------------------------------------------------------
(* Specifications *)

SessionTokens == {sessions[i].token : i \in SessionIds}

Register ==
    /\ \E e \in Emails, u \in Usernames, p \in Passwords : register_user(e, u, p)
    /\ UNCHANGED teamVars
SendVerificationEmail ==
    /\ \E e \in Emails : send_verification_email(e)
    /\ UNCHANGED teamVars
VerifyEmail ==
    /\ \E t \in Presentable : verify_email(t)
    /\ UNCHANGED teamVars
Login ==
    /\ \E e \in Emails, p \in Passwords, r \in BOOLEAN : login(e, p, r)
    /\ UNCHANGED teamVars
RefreshToken ==
    /\ \E t \in Presentable \cup {NoToken} : refresh_token(t)
    /\ UNCHANGED teamVars
Logout ==
    /\ \E t \in SessionTokens \cup {NoToken} : logout(t)
    /\ UNCHANGED teamVars
ForgotPassword ==
    /\ \E e \in Emails : forgot_password(e)
    /\ UNCHANGED teamVars
ResetPassword ==
    /\ \E t \in Presentable, p \in Passwords : reset_password(t, p)
    /\ UNCHANGED teamVars
GetCurrentUser ==
    /\ \E t \in Presentable \cup SessionTokens \cup {NoToken} : get_current_user(t)
    /\ UNCHANGED teamVars

Next ==
    \/ Register
    \/ SendVerificationEmail
    \/ VerifyEmail
    \/ Login
    \/ RefreshToken
    \/ Logout
    \/ ForgotPassword
    \/ ResetPassword
    \/ GetCurrentUser
    \/ Tick

Spec == Init /\ [][Next]_vars

ProcessEmailVerification ==
    /\ \E t \in Presentable : process_email_verification(t)
    /\ UNCHANGED teamVars
Authenticate ==
    /\ \E e \in Emails, p \in Passwords : authenticate(e, p)
    /\ UNCHANGED teamVars
CreateUserSession ==
    /\ \E u \in UserIds : create_user_session(u)
    /\ UNCHANGED teamVars
ValidateSession ==
    /\ \E t \in SessionTokens \cup {OpaqueToken(0)} : validate_session(t)
    /\ UNCHANGED teamVars
TerminateSession ==
    /\ \E t \in SessionTokens \cup {OpaqueToken(0)} : terminate_session(t)
    /\ UNCHANGED teamVars

SvcNext ==
    \/ ProcessEmailVerification
    \/ Authenticate
    \/ CreateUserSession
    \/ ValidateSession
    \/ TerminateSession
    \/ Logout
    \/ SvcTick

\* A database holding two registered users, one of them verified, as
\* register_user and verify_email leave it; no session exists yet.
SvcInit ==
    /\ users = << [email |-> "a@x", username |-> "alice",
                   hashed_password |-> hash_password("pw1"),
                   is_active |-> TRUE, last_login |-> NoTime],
                  [email |-> "b@x", username |-> "bob",
                   hashed_password |-> hash_password("pw2"),
                   is_active |-> FALSE, last_login |-> NoTime] >>
    /\ sessions = <<>>
    /\ issued = {Jwt("a@x", EMAIL_VERIFICATION_TOKEN_EXPIRE_MINUTES, "email_verification", "good"),
                 Jwt("b@x", EMAIL_VERIFICATION_TOKEN_EXPIRE_MINUTES, "email_verification", "good")}
    /\ now = 0
    /\ resp = Resp("init", 0, "", NoEmail, "", NoToken, NoUser, {}, 0, FALSE)
    /\ teams = {}
    /\ members = {}
    /\ pending = {}
    /\ joining = {}
    /\ invitations = {}
    /\ inviting = {}
    /\ tresp = NoTeamCall

SvcSpec == SvcInit /\ [][SvcNext]_vars

CreateTeamFlush ==
    /\ \E u \in CallerIds, n \in TeamNames, c \in Codes : create_team_flush(u, n, c)
    /\ UNCHANGED <<joining, invitations, inviting>>
    /\ UNCHANGED authVars
CreateTeamInsertMember ==
    /\ \E p \in pending : create_team_insert_member(p)
    /\ UNCHANGED <<joining, invitations, inviting>>
    /\ UNCHANGED authVars
CreateTeamCommit ==
    /\ \E p \in pending : create_team_commit(p)
    /\ UNCHANGED <<joining, invitations, inviting>>
    /\ UNCHANGED authVars
CreateTeamRollback ==
    /\ \E p \in pending : create_team_rollback(p)
    /\ UNCHANGED <<joining, invitations, inviting>>
    /\ UNCHANGED authVars
JoinTeam ==
    /\ \E u \in CallerIds, c \in Codes : join_team_by_invite_code(u, c)
    /\ UNCHANGED <<joining, invitations, inviting>>
    /\ UNCHANGED authVars
GetUserTeams ==
    /\ \E u \in UserIds : get_user_teams(u)
    /\ UNCHANGED <<joining, invitations, inviting>>
    /\ UNCHANGED authVars
RemoveTeamMember ==
    /\ \E t \in TeamIds, a \in UserIds, m \in UserIds : remove_team_member(t, a, m)
    /\ UNCHANGED <<joining, invitations, inviting>>
    /\ UNCHANGED authVars

JoinTeamCheck ==
    /\ \E u \in UserIds, c \in Codes : join_team_check(u, c)
    /\ UNCHANGED inviting
    /\ UNCHANGED authVars
JoinTeamInsert ==
    /\ \E j \in joining : join_team_insert(j)
    /\ UNCHANGED inviting
    /\ UNCHANGED authVars
UpdateTeam ==
    /\ \E t \in TeamIds, u \in UserIds, n \in {NoName, "Apex"},
          d \in {NoDescription, "a team"} : update_team(t, u, n, d)
    /\ UNCHANGED inviting
    /\ UNCHANGED authVars
RegenerateInviteCode ==
    /\ \E t \in TeamIds, u \in UserIds, c \in Codes : regenerate_invite_code(t, u, c)
    /\ UNCHANGED inviting
    /\ UNCHANGED authVars

TeamNext ==
    \/ CreateTeamFlush
    \/ CreateTeamInsertMember
    \/ CreateTeamCommit
    \/ CreateTeamRollback
    \/ JoinTeam
    \/ GetUserTeams
    \/ RemoveTeamMember
    \/ JoinTeamCheck
    \/ JoinTeamInsert
    \/ RegenerateInviteCode

\* A database holding two registered, verified users and no team.
TeamInit ==
    /\ users = << [email |-> "a@x", username |-> "alice",
                   hashed_password |-> hash_password("pw1"),
                   is_active |-> TRUE, last_login |-> NoTime],
                  [email |-> "b@x", username |-> "bob",
                   hashed_password |-> hash_password("pw2"),
                   is_active |-> TRUE, last_login |-> NoTime] >>
    /\ sessions = <<>>
    /\ issued = {}
    /\ now = 0
    /\ resp = Resp("init", 0, "", NoEmail, "", NoToken, NoUser, {}, 0, FALSE)
    /\ teams = {}
    /\ members = {}
    /\ pending = {}
    /\ joining = {}
    /\ invitations = {}
    /\ inviting = {}
    /\ tresp = NoTeamCall

TeamSpec == TeamInit /\ [][TeamNext]_vars

InviteToTeam ==
    /\ \E t \in TeamIds, u \in UserIds, e \in InviteeEmails : invite_to_team(t, u, e)
    /\ UNCHANGED inviting
    /\ UNCHANGED authVars

ManageNext ==
    \/ JoinTeam
    \/ RemoveTeamMember
    \/ UpdateTeam
    \/ RegenerateInviteCode
    \/ InviteToTeam

\* A database holding two registered, verified users and one team, as
\* create_team by the first user leaves it.
ManageInit ==
    /\ users = << [email |-> "a@x", username |-> "alice",
                   hashed_password |-> hash_password("pw1"),
                   is_active |-> TRUE, last_login |-> NoTime],
                  [email |-> "b@x", username |-> "bob",
                   hashed_password |-> hash_password("pw2"),
                   is_active |-> TRUE, last_login |-> NoTime] >>
    /\ sessions = <<>>
    /\ issued = {}
    /\ now = 0
    /\ resp = Resp("init", 0, "", NoEmail, "", NoToken, NoUser, {}, 0, FALSE)
    /\ teams = {Team(1, "Acme", NoDescription, "AAAA1111", 1)}
    /\ members = {[user_id |-> 1, team_id |-> 1, role |-> "admin", joined_at |-> 0,
                   is_active |-> TRUE]}
    /\ pending = {}
    /\ joining = {}
    /\ invitations = {}
    /\ inviting = {}
    /\ tresp = NoTeamCall

ManageSpec == ManageInit /\ [][ManageNext]_vars

CreateTeamInvitation ==
    /\ \E t \in TeamIds, u \in UserIds, i \in UserIds :
          create_team_invitation(t, u, users[i].email, i)
    /\ UNCHANGED inviting
    /\ UNCHANGED authVars
InviteCheck ==
    /\ \E t \in TeamIds, u \in UserIds, e \in Emails :
          \E i \in {NoUser, user_by_email(e)} : invite_check(t, u, e, i)
    /\ UNCHANGED authVars
InviteInsert ==
    /\ \E v \in inviting : invite_insert(v)
    /\ UNCHANGED authVars
GetTeam ==
    /\ \E t \in TeamIds, u \in UserIds : get_team(t, u)
    /\ UNCHANGED authVars

InviteNext ==
    \/ InviteToTeam
    \/ CreateTeamInvitation
    \/ InviteCheck
    \/ InviteInsert
    \/ InviteTick

InviteSpec == ManageInit /\ [][InviteNext]_vars

\* The six operations that write teams, memberships or invitations, from an
\* empty teams table; update and invite with one value each for the name and
\* the invitee.
RenameTeam ==
    /\ \E t \in TeamIds, u \in UserIds : update_team(t, u, "Apex", NoDescription)
    /\ UNCHANGED inviting
    /\ UNCHANGED authVars
InviteOutsider ==
    /\ \E t \in TeamIds, u \in UserIds : invite_to_team(t, u, "c@x")
    /\ UNCHANGED inviting
    /\ UNCHANGED authVars

OpsNext ==
    \/ CreateTeamFlush
    \/ CreateTeamInsertMember
    \/ CreateTeamCommit
    \/ CreateTeamRollback
    \/ JoinTeam
    \/ RemoveTeamMember
    \/ RenameTeam
    \/ RegenerateInviteCode
    \/ InviteOutsider

OpsSpec == TeamInit /\ [][OpsNext]_vars

\* The operations on an existing team together with the two read endpoints.
ViewNext ==
    \/ JoinTeam
    \/ RemoveTeamMember
    \/ UpdateTeam
    \/ RegenerateInviteCode
    \/ InviteToTeam
    \/ GetUserTeams
    \/ GetTeam

ViewSpec == ManageInit /\ [][ViewNext]_vars

----------------------------------------------------------------------------
(* Claims *)

SessionsWithToken(token) == {i \in SessionIds : sessions[i].token = token}

\* C1: validate_session(token) returns the owning user iff a session with
\* that token was issued, is still active and now < expires_at; right after
\* terminate_session(token) the token no longer validates.
C1_ValidateIffLive ==
    /\ resp.op = "validate_session" =>
          /\ (resp.user # NoUser) <=>
                (\E i \in SessionsWithToken(resp.token) :
                    sessions[i].is_active /\ now < sessions[i].expires_at)
          /\ resp.user # NoUser =>
                \A i \in SessionsWithToken(resp.token) : sessions[i].user_id = resp.user
    /\ resp.op = "terminate_session" => valid_session_row(resp.token) = 0

\* C1 witness: a session that was never terminated is refused at the very
\* instant it expires.
C1_Witness ==
    /\ resp.op = "validate_session"
    /\ resp.user = NoUser
    /\ \E i \in SessionsWithToken(resp.token) :
          sessions[i].is_active /\ sessions[i].expires_at = now

\* C2: the access token of a successful login, presented as the Bearer token
\* before it expires, makes get_current_user return the logged-in user.
C2_AccessTokenAuthenticates ==
    (/\ resp.op = "get_current_user"
     /\ resp.token \in issued
     /\ resp.token.type = "access_token"
     /\ ~(resp.token.exp < now))
    => (resp.status = 200 /\ resp.user = user_by_email(resp.token.sub))

\* C3: after a successful login an active, unexpired session owned by the
\* user exists and the user's last_login is the time of the login.
C3_LoginCreatesSession ==
    (resp.op = "login" /\ resp.status = 200)
    => /\ \E i \in SessionIds : /\ sessions[i].user_id = resp.user
                                /\ sessions[i].is_active
                                /\ sessions[i].expires_at > now
       /\ users[resp.user].last_login = now

\* C4: password login and authenticate_user fail for a user whose is_active
\* is false, and every access token, refresh token and session belongs to an
\* active user.
C4_InactiveNeverAuthenticates ==
    /\ (resp.op = "login" /\ user_by_email(resp.email) # NoUser
            /\ ~users[user_by_email(resp.email)].is_active)
          => (resp.status # 200 /\ resp.out = {} /\ resp.user = NoUser)
    /\ \A e \in Emails, p \in Passwords :
          (user_by_email(e) # NoUser /\ ~users[user_by_email(e)].is_active)
             => authenticate_user(e, p) = NoUser
    /\ \A t \in issued :
          t.type \in {"access_token", "refresh_token"}
             => (user_by_email(t.sub) # NoUser /\ users[user_by_email(t.sub)].is_active)
    /\ \A i \in SessionIds : users[sessions[i].user_id].is_active

\* C4 witness: an unverified user has just tried to log in with the right
\* password.
C4_Witness ==
    /\ resp.op = "login"
    /\ user_by_email(resp.email) # NoUser
    /\ ~users[user_by_email(resp.email)].is_active
    /\ verify_password(resp.password, users[user_by_email(resp.email)].hashed_password)
    /\ resp.status = 400

\* C5: every failed login has the same outcome (401, "Incorrect email or
\* password"), whichever of the three causes it has.
C5_UniformLoginFailure ==
    (resp.op = "login" /\ resp.status # 200)
    => (resp.status = 401 /\ resp.detail = "Incorrect email or password")

\* The token type each token-consuming operation is meant to require.
RequiredType(op) ==
    CASE op = "verify_email" -> "email_verification"
      [] op = "reset_password" -> "password_reset"
      [] op = "refresh_token" -> "refresh_token"
      [] OTHER -> "none"

\* A token the server signed that has not expired.
Unexpired(token) ==
    token \in issued /\ token.kind = "jwt" /\ token.sig = "good" /\ token.exp >= now

\* C6: verify_email, reset_password and refresh_token reject every token whose
\* type is not the one the operation requires, and such a call changes no
\* stored state and issues nothing.
C6_WrongTypeRejected ==
    [][(/\ resp'.op \in {"verify_email", "reset_password", "refresh_token"}
        /\ resp'.token.type # RequiredType(resp'.op))
       => (/\ resp'.status # 200
           /\ users' = users
           /\ sessions' = sessions
           /\ issued' = issued)]_vars

\* C6 witness: verify_email has refused a well-signed, unexpired
\* password_reset token.
C6_Witness ==
    /\ resp.op = "verify_email"
    /\ Unexpired(resp.token)
    /\ resp.token.type = "password_reset"
    /\ resp.status = 400

\* C7: reset_password with an unexpired password_reset token of an existing
\* active user succeeds, and afterwards the new password authenticates and no
\* other password does.
C7_ResetRoundTrip ==
    (/\ resp.op = "reset_password"
     /\ Unexpired(resp.token)
     /\ resp.token.type = "password_reset"
     /\ user_by_email(resp.token.sub) # NoUser
     /\ users[user_by_email(resp.token.sub)].is_active)
    => (/\ resp.status = 200
        /\ authenticate_user(resp.token.sub, resp.password) # NoUser
        /\ \A p \in Passwords \ {resp.password} :
              authenticate_user(resp.token.sub, p) = NoUser)

\* C8: refresh with an unexpired refresh token of an existing active user
\* succeeds and hands out a new access token and a new refresh token for
\* that user.
C8_RefreshRotates ==
    (/\ resp.op = "refresh_token"
     /\ Unexpired(resp.token)
     /\ resp.token.type = "refresh_token"
     /\ user_by_email(resp.token.sub) # NoUser
     /\ users[user_by_email(resp.token.sub)].is_active)
    => (/\ resp.status = 200
        /\ \E a \in resp.out : a.type = "access_token" /\ a.sub = resp.token.sub
        /\ \E r \in resp.out : r.type = "refresh_token" /\ r.sub = resp.token.sub)

\* C9: verify_email with an unexpired email_verification token of an existing
\* user succeeds whether or not the user is already active, leaves the user
\* active, and changes nothing at all when the user was active before.
C9_VerifyEmailIdempotent ==
    [][(/\ resp'.op = "verify_email"
        /\ Unexpired(resp'.token)
        /\ resp'.token.type = "email_verification"
        /\ user_by_email(resp'.token.sub) # NoUser)
       => LET u == user_by_email(resp'.token.sub) IN
          /\ resp'.status = 200
          /\ users' = [users EXCEPT ![u].is_active = TRUE]
          /\ users[u].is_active => users' = users
          /\ sessions' = sessions
          /\ issued' = issued
          /\ now' = now]_vars

\* C9 witness: verify_email has succeeded for a user who had logged in
\* before, hence was active already.
C9_Witness ==
    /\ resp.op = "verify_email"
    /\ resp.status = 200
    /\ \E t \in issued : t.type = "access_token" /\ t.sub = resp.email

\* C10: a user row is created inactive, turns active only in a verify_email
\* step whose token is an unexpired email_verification token for that user's
\* email, and never turns inactive again; no user row disappears.
C10_ActivationOneWay ==
    [][/\ Len(users') >= Len(users)
       /\ \A i \in 1..Len(users') :
             IF i \in UserIds
             THEN /\ users[i].is_active => users'[i].is_active
                  /\ (~users[i].is_active /\ users'[i].is_active)
                        => (/\ resp'.op = "verify_email"
                            /\ Unexpired(resp'.token)
                            /\ resp'.token.type = "email_verification"
                            /\ resp'.token.sub = users[i].email)
             ELSE ~users'[i].is_active]_vars

\* C10 witness: reset_password has been requested for a user who is active.
C10_Witness ==
    /\ resp.op = "reset_password"
    /\ user_by_email(resp.token.sub) # NoUser
    /\ users[user_by_email(resp.token.sub)].is_active

EmailTaken(e) == \E i \in UserIds : users[i].email = e
UsernameTaken(u) == \E i \in UserIds : users[i].username = u

\* C11: a register call whose email is already registered fails with "Email
\* already registered", one whose username is taken fails with "Username
\* already taken", neither creates a user, and no two users ever share an
\* email or a username.
C11_DuplicateRegistrationFails ==
    [][/\ \A e \in Emails, u \in Usernames, p \in Passwords :
             register_user(e, u, p) =>
                /\ EmailTaken(e) =>
                      (/\ resp'.status = 400
                       /\ resp'.detail = "Email already registered"
                       /\ users' = users)
                /\ (~EmailTaken(e) /\ UsernameTaken(u)) =>
                      (/\ resp'.status = 400
                       /\ resp'.detail = "Username already taken"
                       /\ users' = users)
       /\ \A i, j \in 1..Len(users') :
             i # j => (/\ users'[i].email # users'[j].email
                       /\ users'[i].username # users'[j].username)]_vars

\* C11 witness: a registration with a fresh email was refused because its
\* username belongs to another user.
C11_Witness ==
    /\ resp.op = "register"
    /\ resp.detail = "Username already taken"
    /\ ~EmailTaken(resp.email)
    /\ Len(users) = 1

\* C12: every registration that passes the duplicate tests answers 201 and
\* adds the user row, whether the mail port reports success or failure; the
\* failure shows only in the flag of the response.
C12_RegistrationSurvivesMailFailure ==
    [][\A e \in Emails, u \in Usernames, p \in Passwords :
          (register_user(e, u, p) /\ ~EmailTaken(e) /\ ~UsernameTaken(u)) =>
             /\ resp'.status = 201
             /\ resp'.mailed = 1
             /\ Len(users') = Len(users) + 1
             /\ users'[Len(users')].email = e
             /\ users'[Len(users')].username = u
             /\ \A i \in UserIds : users'[i] = users[i]]_vars

\* C12 witness: a registration whose verification mail could not be sent.
C12_Witness ==
    /\ resp.op = "register"
    /\ resp.status = 201
    /\ resp.mailed = 1
    /\ ~resp.sent
    /\ EmailTaken(resp.email)

\* C13: request_verification for an already active user issues no token and
\* makes no call to the mail port.
C13_NoResendWhenActive ==
    [][(/\ resp'.op = "send_verification_email"
        /\ \E i \in UserIds : users[i].email = resp'.email /\ users[i].is_active)
       => (/\ resp'.status = 200
           /\ resp'.mailed = 0
           /\ issued' = issued)]_vars

C15_ResetRequestHidesExistence ==
    (resp.op = "forgot_password" /\ (resp.mailed = 1 => resp.sent))
    => [status |-> resp.status, detail |-> resp.detail, email_sent |-> resp.sent]
          = NoAccountResponse

\* C16: logout(token) deactivates the matching active session, so that the
\* token no longer validates; with a token that matches no active session it
\* changes no session record and is not an error.
C16_LogoutDeactivates ==
    [][resp'.op = "logout" =>
          /\ resp'.status = 200
          /\ \A i \in 1..Len(sessions') :
                sessions'[i].token = resp'.token => ~sessions'[i].is_active
          /\ (\A i \in SessionIds : sessions[i].token = resp'.token => ~sessions[i].is_active)
                => sessions' = sessions]_vars

ValidSession(s) == s.is_active /\ now < s.expires_at

\* C17: a user may hold several valid sessions at once; terminating or
\* validating one session changes no other session record, so every other
\* session that was valid is still valid.
C17_SessionsIndependent ==
    [][resp'.op \in {"validate_session", "terminate_session"} =>
          /\ Len(sessions') = Len(sessions)
          /\ \A i \in SessionIds :
                sessions[i].token # resp'.token =>
                   /\ sessions'[i] = sessions[i]
                   /\ ValidSession(sessions[i]) =>
                         (sessions'[i].is_active /\ now' < sessions'[i].expires_at)]_vars

\* C17 witness: one user holds two sessions; the first has just been
\* terminated and the second is still valid.
C17_Witness ==
    /\ resp.op = "terminate_session"
    /\ resp.detail = "True"
    /\ Len(sessions) = 2
    /\ sessions[1].user_id = sessions[2].user_id
    /\ sessions[1].token = resp.token
    /\ ~sessions[1].is_active
    /\ ValidSession(sessions[2])

MembershipsOf(team_id) == {m \in members : m.team_id = team_id}
TeamWithCode(c) == (CHOOSE t \in teams : t.invite_code = c).id
CodeInUse(c) == \E t \in teams : t.invite_code = c
ActiveMember(v, team_id) ==
    \E m \in members : m.user_id = v /\ m.team_id = team_id /\ m.is_active

\* C18: create_team by an existing user yields a team whose only membership
\* is the creator's, with role admin and active; a join with the team's
\* invite code by a user with no membership adds an active member-role row; a
\* join by a user who is an active member fails with "User is already a
\* member of this team" and adds no row.
C18_CreateThenJoin ==
    [][/\ \A p \in pending :
             create_team_commit(p) =>
                /\ tresp'.status = 201
                /\ p.team \in teams'
                /\ \E m \in members' : m.team_id = p.team.id
                /\ \A m \in members' :
                      m.team_id = p.team.id =>
                         /\ m.user_id = p.team.created_by_id
                         /\ m.role = "admin"
                         /\ m.is_active
       /\ \A v \in UserIds, c \in Codes :
             (join_team_by_invite_code(v, c) /\ CodeInUse(c)) =>
                /\ (\A m \in members : ~(m.user_id = v /\ m.team_id = TeamWithCode(c))) =>
                      /\ tresp'.status = 200
                      /\ members' = members \cup
                            {[user_id |-> v, team_id |-> TeamWithCode(c), role |-> "member",
                              joined_at |-> now, is_active |-> TRUE]}
                /\ ActiveMember(v, TeamWithCode(c)) =>
                      /\ tresp'.status = 400
                      /\ tresp'.detail = "User is already a member of this team"
                      /\ members' = members]_vars

\* C18 witness: a second join was refused; the team holds its creator as
\* admin and the joiner as member, both active, and nobody else.
C18_Witness ==
    /\ tresp.op = "join_team_by_invite_code"
    /\ tresp.status = 400
    /\ Cardinality(MembershipsOf(tresp.team)) = 2
    /\ \E m \in MembershipsOf(tresp.team) :
          m.user_id = tresp.user /\ m.role = "member" /\ m.is_active
    /\ \E m \in MembershipsOf(tresp.team) :
          m.user_id # tresp.user /\ m.role = "admin" /\ m.is_active

HasCreatorAdmin(t) ==
    \E m \in members : /\ m.team_id = t.id
                       /\ m.user_id = t.created_by_id
                       /\ m.role = "admin"
                       /\ m.is_active

\* C19: in every state other requests can observe, a team row exists only
\* together with its creator's active admin membership: nothing of a
\* create_team still in flight or rolled back is visible, and every team a
\* join or a listing reports has that membership.
C19_TeamCreationAtomic ==
    /\ \A t \in teams : HasCreatorAdmin(t)
    /\ \A p \in pending : /\ p.team \notin teams
                          /\ MembershipsOf(p.team.id) = {}
    /\ tresp.op \in {"join_team_by_invite_code", "get_user_teams"} =>
          \A id \in tresp.out \cup ({tresp.team} \ {NoTeam}) :
             \E t \in teams : t.id = id /\ HasCreatorAdmin(t)

\* C19 witness: while a create_team had flushed its team row and not yet
\* committed, another user tried to join with that team's invite code and
\* was told the code is invalid.
C19_Witness ==
    /\ tresp.op = "join_team_by_invite_code"
    /\ tresp.status = 404
    /\ tresp.detail = "Invalid invite code"
    /\ \E p \in pending : /\ p.team.invite_code = tresp.code
                          /\ p.team.created_by_id # tresp.user
    /\ teams # {}

\* C20: a join by an existing user with a team's invite code fails with
\* "already a member" exactly when the pair has an active membership row; in
\* every other case, a soft-removed membership included, it succeeds and the
\* user holds an active member-role membership afterwards.
C20_JoinFailsIffActiveMember ==
    [][\A v \in UserIds, c \in Codes :
          (join_team_by_invite_code(v, c) /\ CodeInUse(c)) =>
             /\ (tresp'.status = 400) <=> ActiveMember(v, TeamWithCode(c))
             /\ ~ActiveMember(v, TeamWithCode(c)) =>
                   /\ tresp'.status = 200
                   /\ \E m \in members' : /\ m.user_id = v
                                          /\ m.team_id = TeamWithCode(c)
                                          /\ m.role = "member"
                                          /\ m.is_active]_vars

\* C21: in every reachable state, whatever the interleaving of create_team,
\* join and remove_member, a (user, team) pair has at most one active
\* membership row, and no membership row is ever deleted: every row stays,
\* with its role and joined_at.
C21_OneMembershipNeverDeleted ==
    [][/\ \A m1, m2 \in members' :
             (/\ m1.user_id = m2.user_id
              /\ m1.team_id = m2.team_id
              /\ m1.is_active
              /\ m2.is_active) => m1 = m2
       /\ \A m \in members :
             \E n \in members' : /\ n.user_id = m.user_id
                                 /\ n.team_id = m.team_id
                                 /\ n.role = m.role
                                 /\ n.joined_at = m.joined_at]_vars

\* C21 witness: a join that had passed its checks lost against a join and a
\* removal of the same user in between; the deactivated row is still stored.
C21_Witness ==
    /\ tresp.op = "join_team_by_invite_code"
    /\ tresp.status = 500
    /\ \E m \in members : /\ m.user_id = tresp.user
                          /\ m.team_id = tresp.team
                          /\ ~m.is_active

\* C22: when two joins of the same (user, team) pair have both passed the
\* existence check, the one that inserts second ends with "User is already a
\* member of this team" (400), not with a raw storage error.
C22_JoinRaceIsAlreadyMember ==
    [][\A j \in joining :
          (/\ join_team_insert(j)
           /\ \E m \in members : m.user_id = j.user_id /\ m.team_id = j.team_id)
          => (/\ tresp'.status = 400
              /\ tresp'.detail = "User is already a member of this team"
              /\ members' = members)]_vars

TeamCode(team_id) == (CHOOSE t \in teams : t.id = team_id).invite_code

\* C26: after a successful regenerate_invite_code the team's previous invite
\* code no longer leads to that team, and the returned code does.
C26_OldCodeInvalidated ==
    [][\A t \in TeamIds, u \in UserIds, c \in Codes :
          (regenerate_invite_code(t, u, c) /\ tresp'.status = 200) =>
             /\ ~\E x \in teams' : x.id = t /\ x.invite_code = TeamCode(t)
             /\ \E x \in teams' : x.id = t /\ x.invite_code = tresp'.code]_vars

\* C27: in every reachable state no two teams carry the same invite code (nor
\* the same id), so an invite code leads to at most one team.
C27_InviteCodesUnique ==
    \A t1, t2 \in teams :
       (t1.invite_code = t2.invite_code \/ t1.id = t2.id) => t1 = t2

\* C27 witness: with two teams stored, a regenerate drew the code of the
\* other team and was refused.
C27_Witness ==
    /\ tresp.op = "regenerate_invite_code"
    /\ tresp.status = 500
    /\ Cardinality(teams) = 2

TeamExists(team_id) == \E t \in teams : t.id = team_id
Elevated(user_id, team_id) ==
    \E m \in members : /\ m.user_id = user_id
                       /\ m.team_id = team_id
                       /\ m.is_active
                       /\ m.role \in {"admin", "owner"}

\* C23: update_team, remove_member and regenerate_invite_code on an existing
\* team change state only for a caller with an active admin or owner
\* membership in it; for any other caller (no row, an inactive row, role
\* member) they answer 403 and change nothing.
C23_ElevatedRightsRequired ==
    [][(/\ tresp'.op \in {"update_team", "remove_team_member", "regenerate_invite_code"}
        /\ TeamExists(tresp'.team))
       => /\ ~Elevated(tresp'.user, tresp'.team) =>
                /\ tresp'.status = 403
                /\ teams' = teams
                /\ members' = members
                /\ invitations' = invitations
          /\ (teams' # teams \/ members' # members) => Elevated(tresp'.user, tresp'.team)]_vars

\* C23 witness: a user whose membership was deactivated was refused an update.
C23_Witness ==
    /\ tresp.op = "update_team"
    /\ tresp.status = 403
    /\ \E m \in members : /\ m.user_id = tresp.user
                          /\ m.team_id = tresp.team
                          /\ ~m.is_active

\* C24: on an existing team, remove_member of oneself by an active admin
\* answers 400, and remove_member by a caller whose active role is member
\* answers 403 whatever the target; no membership changes in either case.
C24_SelfRemovalAndMemberCaller ==
    [][\A t \in TeamIds, a \in UserIds, m \in UserIds :
          (remove_team_member(t, a, m) /\ TeamExists(t)) =>
             /\ (a = m /\ Elevated(a, t)) =>
                   /\ tresp'.status = 400
                   /\ tresp'.detail = "You cannot remove yourself from the team"
                   /\ members' = members
             /\ (\E r \in members : /\ r.user_id = a
                                    /\ r.team_id = t
                                    /\ r.is_active
                                    /\ r.role = "member") =>
                   /\ tresp'.status = 403
                   /\ members' = members]_vars

\* C24 witness: an active admin asked to remove itself and was refused.
C24_Witness ==
    /\ tresp.op = "remove_team_member"
    /\ tresp.status = 400
    /\ Elevated(tresp.user, tresp.team)

\* C25: a successful remove_member deactivates exactly the target's row of
\* that team, which stays stored with its role and joined_at, and changes no
\* other membership, no team and no invitation; when the target has no
\* active membership an admin's call answers 404.
C25_RemoveFrame ==
    [][\A t \in TeamIds, a \in UserIds, m \in UserIds :
          remove_team_member(t, a, m) =>
             /\ tresp'.status = 200 =>
                   /\ \E row \in members :
                         /\ row.user_id = m
                         /\ row.team_id = t
                         /\ row.is_active
                         /\ members' = (members \ {row}) \cup
                                          {[row EXCEPT !.is_active = FALSE]}
                   /\ teams' = teams
                   /\ invitations' = invitations
             /\ (/\ TeamExists(t)
                 /\ Elevated(a, t)
                 /\ a # m
                 /\ ~ActiveMember(m, t)) =>
                   /\ tresp'.status = 404
                   /\ tresp'.detail = "User is not a member of this team"
                   /\ members' = members
                   /\ teams' = teams
                   /\ invitations' = invitations]_vars

\* C25 witness: a member was removed while an invitation was stored; the
\* member's row is kept, deactivated, beside the admin's active row.
C25_Witness ==
    /\ tresp.op = "remove_team_member"
    /\ tresp.status = 200
    /\ invitations # {}
    /\ \E row \in members : row.team_id = tresp.team /\ row.role = "member" /\ ~row.is_active
    /\ Elevated(tresp.user, tresp.team)

PendingInvitations(team_id, email) ==
    {i \in invitations : /\ i.team_id = team_id
                         /\ i.invitee_email = email
                         /\ i.status = "pending"}

\* C28: an invite to an existing team succeeds for an inviter with any active
\* membership in it, member or admin, and answers 403, creating no
\* invitation, for an inviter with no membership or a deactivated one.
C28_AnyActiveMemberInvites ==
    [][\A t \in TeamIds, u \in UserIds, e \in InviteeEmails :
          (invite_to_team(t, u, e) /\ TeamExists(t)) =>
             /\ ActiveMember(u, t) =>
                   /\ tresp'.status = 201
                   /\ \E i \in invitations' :
                         /\ i.team_id = t
                         /\ i.invitee_email = e
                         /\ i.status = "pending"
                         /\ tresp'.out = {i.id}
             /\ ~ActiveMember(u, t) =>
                   /\ tresp'.status = 403
                   /\ invitations' = invitations]_vars

\* C28 witness: a member-role user invited somebody and the invitation it
\* got back is its own.
C28_Witness ==
    /\ tresp.op = "create_team_invitation"
    /\ tresp.status = 201
    /\ \E m \in members : /\ m.user_id = tresp.user
                          /\ m.team_id = tresp.team
                          /\ m.role = "member"
                          /\ m.is_active
    /\ \E i \in invitations : tresp.out = {i.id} /\ i.inviter_id = tresp.user

\* C29: an invite answers 400 and creates no invitation whenever the invitee,
\* named by the email of a registered user, is an active member of the team.
C29_InviteOfMemberRefused ==
    [][\A t \in TeamIds, u \in UserIds, e \in InviteeEmails :
          (/\ invite_to_team(t, u, e)
           /\ TeamExists(t)
           /\ ActiveMember(u, t)
           /\ \E i \in UserIds : users[i].email = e /\ ActiveMember(i, t))
          => (/\ tresp'.status = 400
              /\ invitations' = invitations)]_vars

\* C30: while an invitation for a (team, email) pair is pending, an invite
\* for the same pair by any authorised inviter returns that invitation's id,
\* creates no row and changes nothing; a pair never has two pending
\* invitations.
C30_InviteIdempotent ==
    [][/\ \A t \in TeamIds, u \in UserIds, e \in InviteeEmails :
             (/\ invite_to_team(t, u, e)
              /\ ActiveMember(u, t)
              /\ PendingInvitations(t, e) # {})
             => (/\ tresp'.status = 201
                 /\ \E i \in PendingInvitations(t, e) : tresp'.out = {i.id}
                 /\ invitations' = invitations
                 /\ teams' = teams
                 /\ members' = members)
       /\ \A i1, i2 \in invitations' :
             (/\ i1.team_id = i2.team_id
              /\ i1.invitee_email = i2.invitee_email
              /\ i1.status = "pending"
              /\ i2.status = "pending") => i1 = i2]_vars

\* C30 witness: a second inviter asked for a pair that already had a pending
\* invitation and got the first inviter's invitation back.
C30_Witness ==
    /\ tresp.op = "create_team_invitation"
    /\ tresp.status = 201
    /\ Cardinality(invitations) = 1
    /\ \E i \in invitations : tresp.out = {i.id} /\ i.inviter_id # tresp.user

\* C33: reset_password with a token that is malformed, expired, wrongly
\* signed or of the wrong type fails as an invalid token ("Invalid or expired
\* token"), with a valid token whose email has no user it fails with 404, and
\* no failing call changes a stored password hash.
C33_ResetFailureKinds ==
    [][resp'.op = "reset_password" =>
          /\ ~(Unexpired(resp'.token) /\ resp'.token.type = "password_reset") =>
                /\ resp'.status = 400
                /\ resp'.detail = "Invalid or expired token"
          /\ (/\ Unexpired(resp'.token)
              /\ resp'.token.type = "password_reset"
              /\ user_by_email(resp'.token.sub) = NoUser) => resp'.status = 404
          /\ resp'.status # 200 => users' = users]_vars

\* C34: session records are never deleted and a deactivated session is never
\* activated again: every row stays, with its token and owner, and once
\* is_active is false it stays false.
C34_DeactivationPermanent ==
    [][/\ Len(sessions') >= Len(sessions)
       /\ \A i \in SessionIds :
             /\ sessions'[i].token = sessions[i].token
             /\ sessions'[i].user_id = sessions[i].user_id
             /\ ~sessions[i].is_active => ~sessions'[i].is_active]_vars

\* C34 witness: a terminated session that has not expired was presented
\* again and did not validate.
C34_Witness ==
    /\ resp.op = "validate_session"
    /\ resp.user = NoUser
    /\ \E i \in SessionIds : /\ sessions[i].token = resp.token
                             /\ ~sessions[i].is_active
                             /\ now < sessions[i].expires_at

\* C31: at most one pending invitation exists per team and invitee, and
\* inviting an invitee who already has a pending invitation to the team
\* returns that invitation and stores nothing, whether the caller names the
\* invitee by email alone or by email and user id.
C31_ReinviteReturnsExisting ==
    [][\A t \in TeamIds, u \in UserIds, i \in UserIds :
          (/\ create_team_invitation(t, u, users[i].email, i)
           /\ ActiveMember(u, t)
           /\ ~ActiveMember(i, t)
           /\ PendingInvitations(t, users[i].email) # {})
          => /\ tresp'.status = 201
             /\ \E x \in PendingInvitations(t, users[i].email) : tresp'.out = {x.id}
             /\ invitations' = invitations]_vars

\* C32: when two requests invite the same invitee to the same team by email
\* and both look for an existing invitation before either stores one, the
\* request that stores second answers 201 with the invitation the first one
\* stored, and one pending invitation exists afterwards.
C32_ConcurrentInviteReturnsExisting ==
    [][\A v \in inviting :
          (/\ invite_insert(v)
           /\ v.invitee_id = NoUser
           /\ PendingInvitations(v.team_id, v.invitee_email) # {})
          => /\ tresp'.status = 201
             /\ \E x \in PendingInvitations(v.team_id, v.invitee_email) :
                   tresp'.out = {x.id}
             /\ invitations' = invitations]_vars

\* C35: a successful update_team changes the name and the description that
\* were provided and nothing else: an omitted field keeps its value, and the
\* invite code, the creator, the memberships and the invitations are untouched.
C35_UpdateOnlyProvided ==
    [][\A t \in TeamIds, u \in UserIds,
          n \in {NoName, "Apex"}, d \in {NoDescription, "a team"} :
          (update_team(t, u, n, d) /\ tresp'.status = 200)
          => /\ \E old \in teams :
                   /\ old.id = t
                   /\ teams' = (teams \ {old}) \cup
                          {[old EXCEPT !.name = IF n = NoName THEN old.name ELSE n,
                                       !.description = IF d = NoDescription
                                                       THEN old.description ELSE d]}
             /\ members' = members
             /\ invitations' = invitations]_vars

C35_Witness ==
    /\ tresp.op = "update_team"
    /\ tresp.status = 200
    /\ \E t \in teams :
          t.id = tresp.team /\ t.name = "Acme" /\ t.description = "a team"

\* C36: get_team answers 404 when no team has the requested id.
C36_MissingTeamIs404 ==
    (tresp.op = "get_team" /\ ~TeamExists(tresp.team)) => tresp.status = 404

\* C37: an operation that answers 400, 403 or 404 leaves the teams, the
\* memberships and the invitations as they were.
C37_RejectionChangesNothing ==
    [][tresp'.status \in {400, 403, 404}
          => /\ teams' = teams
             /\ members' = members
             /\ invitations' = invitations]_vars

C37_Witness ==
    /\ tresp.op = "join_team_by_invite_code"
    /\ tresp.status = 400
    /\ \E m \in members :
          m.user_id = tresp.user /\ m.team_id = tresp.team /\ ~m.is_active

\* C38: the creator of every team holds an active admin membership of it, and
\* no other user holds an admin membership of it.
C38_CreatorIsOnlyAdmin ==
    \A t \in teams :
        /\ \E m \in members :
              /\ m.team_id = t.id
              /\ m.user_id = t.created_by_id
              /\ m.role = "admin"
              /\ m.is_active
        /\ \A m \in members :
              (m.team_id = t.id /\ m.role = "admin") => m.user_id = t.created_by_id

C38_Witness ==
    \E t \in teams :
        /\ t.name = "Apex"
        /\ \E m \in members :
              m.team_id = t.id /\ m.role = "member" /\ m.user_id # t.created_by_id
        /\ tresp.op = "remove_team_member"
        /\ tresp.team = t.id

\* C39: a user whose membership of a team is inactive is treated as a
\* non-member: get_user_teams leaves the team out, and get_team, update_team,
\* remove_team_member, regenerate_invite_code and an invitation by that user
\* answer 403 and change nothing.
C39_InactiveIsNonMember ==
    [][\A m \in members :
          (~m.is_active /\ tresp'.user = m.user_id)
          => /\ tresp'.op = "get_user_teams" => m.team_id \notin tresp'.out
             /\ (/\ tresp'.team = m.team_id
                 /\ tresp'.op \in {"get_team", "update_team", "remove_team_member",
                                    "regenerate_invite_code",
                                    "create_team_invitation"})
                => /\ tresp'.status = 403
                   /\ teams' = teams
                   /\ members' = members
                   /\ invitations' = invitations]_vars

C39_Witness ==
    /\ tresp.op = "create_team_invitation"
    /\ tresp.status = 403
    /\ \E m \in members :
          m.user_id = tresp.user /\ m.team_id = tresp.team /\ ~m.is_active

\* C40: no operation changes a stored invitation, so every invitation stays
\* pending, and inviting an invitee whose pending invitation has passed its
\* expires_at still returns that invitation.
C40_InvitationsStayPending ==
    [][/\ invitations \subseteq invitations'
       /\ \A i \in invitations' : i.status = "pending"
       /\ \A t \in TeamIds, u \in UserIds, e \in InviteeEmails :
             (/\ \E i \in PendingInvitations(t, e) : i.expires_at < now
              /\ ActiveMember(u, t)
              /\ invite_to_team(t, u, e))
             => /\ tresp'.status = 201
                /\ \E i \in PendingInvitations(t, e) :
                      tresp'.out = {i.id} /\ i.expires_at < now
                /\ invitations' = invitations]_vars

C40_Witness ==
    /\ tresp.op = "create_team_invitation"
    /\ tresp.status = 201
    /\ \E i \in invitations :
          tresp.out = {i.id} /\ i.status = "pending" /\ i.expires_at < now

====
